---- MODULE Spec2Model ----
(***************************************************************************)
(* Model of PipelineCompiler                                               *)
(* (crates/bevy_render/src/pipeline/pipeline_compiler.rs): the cache of    *)
(* specialized shaders and specialized pipelines, the reverse index from   *)
(* specialized shader handles to template pipelines, and the hot-reload    *)
(* invalidation path update_shader.                                        *)
(*                                                                         *)
(* Asset storages (Assets<Shader>, Assets<PipelineDescriptor>) are         *)
(* functions from handles to assets.  Handles are integers; Assets::add    *)
(* hands out a handle that was never used before (a counter stands for the *)
(* random HandleId).  The render backend (RenderResourceContext) is an     *)
(* external collaborator: whether get_specialized_shader accepts a source  *)
(* is a nondeterministic input of each call.                               *)
(***************************************************************************)
EXTENDS Integers, Sequences, FiniteSets, TLC

VARIABLES
    shaders,                       \* Assets<Shader>: handle -> Shader
    pipelines,                     \* Assets<PipelineDescriptor>: handle -> descriptor
    specialized_shaders,           \* HashMap<Handle<Shader>, Vec<SpecializedShader>>
    specialized_shader_pipelines,  \* HashMap<Handle<Shader>, Vec<Handle<PipelineDescriptor>>>
    specialized_pipelines,         \* HashMap<Handle<PipelineDescriptor>, Vec<SpecializedPipeline>>
    next_shader,                   \* next unused shader handle id
    next_pipeline,                 \* next unused pipeline handle id
    get_specialized_shader_calls,  \* backend shader compiles made so far
    create_render_pipeline_calls,  \* backend pipeline materializations made so far
    last                           \* the last call: its arguments and what it returned

vars == <<shaders, pipelines, specialized_shaders, specialized_shader_pipelines,
          specialized_pipelines, next_shader, next_pipeline,
          get_specialized_shader_calls, create_render_pipeline_calls, last>>

---------------------------------------------------------------------------
(* Bounds of the model. *)

\* Backend shader compiles (successful or rejected) in one run.
MaxShaderCompiles == 4

\* Pipelines added to pipeline storage in one run.
MaxPipelineAdds == 2

---------------------------------------------------------------------------
(* Handles and template assets: the inputs of the compiler. *)

\* Option::None for a handle (the fragment stage is optional).
NoHandle == 0

\* Template shader handles: two GLSL sources and one SPIR-V binary.
VS == 1
FS == 2
BIN == 3

TemplateShaders == {VS, FS, BIN}

\* Template pipeline handles.
P1 == 1
P2 == 2
P3 == 3

TemplatePipelines == {P1, P2, P3}

\* Shader { source, stage }.  A compiled artifact is SPIR-V; `template` and
\* `defs` stand for the binary's content (what it was compiled from).
TemplateShaderAssets ==
    (VS :> [source |-> "Glsl", stage |-> "Vertex", template |-> NoHandle, defs |-> {}])
 @@ (FS :> [source |-> "Glsl", stage |-> "Fragment", template |-> NoHandle, defs |-> {}])
 @@ (BIN :> [source |-> "Spirv", stage |-> "Vertex", template |-> NoHandle, defs |-> {}])

\* A template PipelineDescriptor: no layout yet, default scalar fields.
TemplateDescriptor(name, vertex, fragment) ==
    [name |-> name,
     shader_stages |-> [vertex |-> vertex, fragment |-> fragment],
     layout |-> <<>>,
     sample_count |-> 1,
     primitive_topology |-> "TriangleList",
     index_format |-> "Uint32"]

TemplatePipelineAssets ==
    (P1 :> TemplateDescriptor("p1", VS, FS))
 @@ (P2 :> TemplateDescriptor("p2", VS, NoHandle))
 @@ (P3 :> [TemplateDescriptor("p3", BIN, FS) EXCEPT
                !.sample_count = 8,
                !.primitive_topology = "PointList",
                !.index_format = "Uint16"])

\* ShaderSpecialization { shader_defs: HashSet<String> }: equality is set equality.
ShaderSpecializationOf(defs) == [shader_defs |-> defs]

\* A mesh vertex buffer as the geometry provides it (attribute order differs
\* from the shader's, step mode and locations are the caller's).
MeshVertexBuffer ==
    [name |-> "Mesh", stride |-> 20, step_mode |-> "Instance",
     attributes |-> <<[name |-> "Vertex_Uv", offset |-> 12, format |-> "Float2", shader_location |-> 7],
                      [name |-> "Vertex_Position", offset |-> 0, format |-> "Float3", shader_location |-> 7]>>]

\* impl Default for PipelineSpecialization.
DefaultSpecialization ==
    [shader_specialization |-> ShaderSpecializationOf({}),
     primitive_topology |-> "TriangleList",
     dynamic_bindings |-> {},
     index_format |-> "Uint32",
     vertex_buffer_descriptors |-> <<>>,
     sample_count |-> 1]

\* The specializations the callers request.
Specializations ==
    { DefaultSpecialization,
      [DefaultSpecialization EXCEPT !.sample_count = 4],
      [DefaultSpecialization EXCEPT
          !.shader_specialization = ShaderSpecializationOf({"A"}),
          !.dynamic_bindings = {"Camera", "Texture", "Absent"},
          !.vertex_buffer_descriptors = <<MeshVertexBuffer>>] }

---------------------------------------------------------------------------
(* Map helpers (HashMap / Assets). *)

Put(f, k, v) == [x \in (DOMAIN f) \cup {k} |-> IF x = k THEN v ELSE f[x]]

Del(f, k) == [x \in (DOMAIN f) \ {k} |-> f[x]]

\* Mutant: the scan starts after the first element.
FindSpecializationAfterFirst(entries, specialization) ==
    IF \E i \in DOMAIN entries : i > 1 /\ entries[i].specialization = specialization
    THEN CHOOSE i \in DOMAIN entries :
            /\ i > 1
            /\ entries[i].specialization = specialization
            /\ \A j \in DOMAIN entries :
                  (1 < j /\ j < i) => entries[j].specialization # specialization
    ELSE 0

\* Vec::iter().find(pred): index of the first element with the key, 0 for None.
FindSpecialization(entries, specialization) ==
    IF \E i \in DOMAIN entries : entries[i].specialization = specialization
    THEN CHOOSE i \in DOMAIN entries :
            /\ entries[i].specialization = specialization
            /\ \A j \in DOMAIN entries : j < i => entries[j].specialization # specialization
    ELSE 0

---------------------------------------------------------------------------
(* The render backend's layout reflection and the bind group stamp. *)

UniformBinding(name) == [name |-> name, bind_type |-> [kind |-> "Uniform", dynamic |-> FALSE]]

SamplerBinding(name) == [name |-> name, bind_type |-> [kind |-> "Sampler", dynamic |-> FALSE]]

\* BindGroupDescriptor::update_id bumps the group's identity/version stamp:
\* the id counts the bumps since reflection.
UpdateId(bind_group) == [bind_group EXCEPT !.id = bind_group.id + 1]

\* A bind group as reflection returns it, its stamp not yet bumped.
BindGroup(index, bindings) == [index |-> index, bindings |-> bindings, id |-> 0]

\* One reflected vertex buffer descriptor per shader attribute.
ReflectedAttribute(name, format, stride, location) ==
    [name |-> name, stride |-> stride, step_mode |-> "Vertex",
     attributes |-> <<[name |-> name, offset |-> 0, format |-> format,
                       shader_location |-> location]>>]

\* RenderResourceContext::reflect_pipeline_layout(shaders, shader_stages, true):
\* bind groups of the stages present, and the vertex shader's attributes in the
\* order the shader declares them.
ReflectPipelineLayout(shader_stages) ==
    [bind_groups |->
        IF shader_stages.fragment = NoHandle
        THEN <<BindGroup(0, <<UniformBinding("Camera")>>)>>
        ELSE <<BindGroup(0, <<UniformBinding("Camera")>>),
               BindGroup(1, <<UniformBinding("Material"), SamplerBinding("Texture")>>)>>,
     vertex_buffer_descriptors |->
        <<ReflectedAttribute("Vertex_Position", "Float3", 12, 0),
          ReflectedAttribute("Vertex_Normal", "Float3", 12, 1),
          ReflectedAttribute("Vertex_Uv", "Float2", 8, 2)>>]

---------------------------------------------------------------------------
(* compile_pipeline, lines 186-210: dynamic bindings. *)

\* The binding is named in dynamic_bindings and is a BindType::Uniform.
BindingChanged(binding, dynamic_bindings) ==
    /\ binding.name \in dynamic_bindings
    /\ binding.bind_type.kind = "Uniform"

SetDynamic(binding, dynamic_bindings) ==
    IF BindingChanged(binding, dynamic_bindings)
    THEN [binding EXCEPT !.bind_type.dynamic = TRUE]
    ELSE binding

\* The stamp is bumped when a name matches, whatever the binding's type.
SetDynamicBindGroupBumpsOnMatch(bind_group, dynamic_bindings) ==
    LET bindings == [b \in DOMAIN bind_group.bindings |->
                        SetDynamic(bind_group.bindings[b], dynamic_bindings)]
        flipped == [bind_group EXCEPT !.bindings = bindings]
    IN  IF \E b \in DOMAIN bind_group.bindings :
              bind_group.bindings[b].name \in dynamic_bindings
        THEN UpdateId(flipped)
        ELSE flipped

\* The stamp is bumped for every bind group, changed or not.
SetDynamicBindGroupAlwaysBumps(bind_group, dynamic_bindings) ==
    LET bindings == [b \in DOMAIN bind_group.bindings |->
                        SetDynamic(bind_group.bindings[b], dynamic_bindings)]
    IN  UpdateId([bind_group EXCEPT !.bindings = bindings])

\* Mutant: the stamp is bumped only when a binding's mode did change.
SetDynamicBindGroupBumpsOnFlip(bind_group, dynamic_bindings) ==
    LET bindings == [b \in DOMAIN bind_group.bindings |->
                        SetDynamic(bind_group.bindings[b], dynamic_bindings)]
        flipped == [bind_group EXCEPT !.bindings = bindings]
    IN  IF flipped # bind_group
        THEN UpdateId(flipped)
        ELSE flipped

\* Lines 188-209 for one bind group.
SetDynamicBindGroup(bind_group, dynamic_bindings) ==
    LET bindings == [b \in DOMAIN bind_group.bindings |->
                        SetDynamic(bind_group.bindings[b], dynamic_bindings)]
        flipped == [bind_group EXCEPT !.bindings = bindings]
    IN  IF \E b \in DOMAIN bind_group.bindings :
              BindingChanged(bind_group.bindings[b], dynamic_bindings)
        THEN UpdateId(flipped)
        ELSE flipped

ApplyDynamicBindings(layout, dynamic_bindings) ==
    IF dynamic_bindings = {}
    THEN layout
    ELSE [layout EXCEPT !.bind_groups =
            [g \in DOMAIN layout.bind_groups |->
                SetDynamicBindGroup(layout.bind_groups[g], dynamic_bindings)]]

---------------------------------------------------------------------------
(* compile_pipeline, lines 221-294: vertex layout reconciliation. *)

\* attributes.iter().find(|x| x.name == name): first index with the name, 0 for None.
FindAttribute(attributes, name) ==
    IF \E i \in DOMAIN attributes : attributes[i].name = name
    THEN CHOOSE i \in DOMAIN attributes :
            /\ attributes[i].name = name
            /\ \A j \in DOMAIN attributes : j < i => attributes[j].name # name
    ELSE 0

\* The reconciliation that walks the caller's attributes, not the shader's.
CompiledAttributesInMeshOrder(mesh_attributes, reflected, n) ==
    LET Declared(a) == \E r \in 1 .. n : reflected[r].attributes[1].name = a.name
        kept == SelectSeq(mesh_attributes, Declared)
    IN  [k \in DOMAIN kept |->
            [kept[k] EXCEPT !.shader_location =
                reflected[CHOOSE r \in 1 .. n :
                             reflected[r].attributes[1].name = kept[k].name
                         ].attributes[1].shader_location]]

\* The reconciliation that keeps the shader-location the caller supplied.
RECURSIVE CompiledAttributesKeepLocation(_, _, _)
CompiledAttributesKeepLocation(mesh_attributes, reflected, n) ==
    IF n = 0
    THEN <<>>
    ELSE LET shader_vertex_attribute == reflected[n].attributes[1]
             found == FindAttribute(mesh_attributes, shader_vertex_attribute.name)
             before == CompiledAttributesKeepLocation(mesh_attributes, reflected, n - 1)
         IN  IF found = 0
             THEN before
             ELSE Append(before, mesh_attributes[found])

\* The attributes pushed while iterating the first n reflected descriptors.
RECURSIVE CompiledAttributes(_, _, _)
CompiledAttributes(mesh_attributes, reflected, n) ==
    IF n = 0
    THEN <<>>
    ELSE LET shader_vertex_attribute == reflected[n].attributes[1]
             found == FindAttribute(mesh_attributes, shader_vertex_attribute.name)
             before == CompiledAttributes(mesh_attributes, reflected, n - 1)
         IN  IF found = 0
             THEN before
             ELSE Append(before,
                         [mesh_attributes[found] EXCEPT
                             !.shader_location = shader_vertex_attribute.shader_location])

CompileVertexBuffer(mesh_vertex_buffer_descriptor, reflected) ==
    [name |-> "",
     step_mode |-> "Vertex",
     stride |-> mesh_vertex_buffer_descriptor.stride,
     attributes |-> CompiledAttributes(mesh_vertex_buffer_descriptor.attributes,
                                       reflected, Len(reflected))]

\* Mutant: every compiled buffer draws on the attributes of all the buffers.
CompileVertexBuffersMerged(mesh_vertex_buffer_descriptors, reflected) ==
    LET all[n \in 0 .. Len(mesh_vertex_buffer_descriptors)] ==
            IF n = 0
            THEN <<>>
            ELSE all[n - 1] \o mesh_vertex_buffer_descriptors[n].attributes
    IN  [i \in DOMAIN mesh_vertex_buffer_descriptors |->
            CompileVertexBuffer(
                [mesh_vertex_buffer_descriptors[i] EXCEPT
                    !.attributes = mesh_vertex_buffer_descriptors[i].attributes
                                      \o all[Len(mesh_vertex_buffer_descriptors)]],
                reflected)]

CompileVertexBuffers(mesh_vertex_buffer_descriptors, reflected) ==
    [i \in DOMAIN mesh_vertex_buffer_descriptors |->
        CompileVertexBuffer(mesh_vertex_buffer_descriptors[i], reflected)]

\* The layout stored in the specialized descriptor.
\* Lines 186-294 applied to the layout the backend reflected.
CompileReflectedLayout(reflected, pipeline_specialization) ==
    LET layout == ApplyDynamicBindings(reflected, pipeline_specialization.dynamic_bindings)
    IN  [layout EXCEPT !.vertex_buffer_descriptors =
            CompileVertexBuffers(pipeline_specialization.vertex_buffer_descriptors,
                                 reflected.vertex_buffer_descriptors)]

CompileLayout(shader_stages, pipeline_specialization) ==
    CompileReflectedLayout(ReflectPipelineLayout(shader_stages), pipeline_specialization)

---------------------------------------------------------------------------
(* The compiler, its two asset storages and the backend counters, as one   *)
(* record that the operations below take and return.                       *)

Compiler ==
    [shaders |-> shaders,
     pipelines |-> pipelines,
     specialized_shaders |-> specialized_shaders,
     specialized_shader_pipelines |-> specialized_shader_pipelines,
     specialized_pipelines |-> specialized_pipelines,
     next_shader |-> next_shader,
     next_pipeline |-> next_pipeline,
     get_specialized_shader_calls |-> get_specialized_shader_calls,
     create_render_pipeline_calls |-> create_render_pipeline_calls]

\* What one compile_shader call returned: "passthrough", "hit" and "miss" are
\* Ok(handle); "error" is Err(ShaderError); "panic" is the failed unwrap of a
\* shader missing from storage; "none" is a stage that does not exist.
StageResult(outcome, handle, c) == [outcome |-> outcome, handle |-> handle, c |-> c]

\* RenderResourceContext::get_specialized_shader(shader, defs): the artifact.
SpecializedShaderAsset(c, shader_handle, shader_specialization) ==
    [source |-> "Spirv",
     stage |-> c.shaders[shader_handle].stage,
     template |-> shader_handle,
     defs |-> shader_specialization.shader_defs]

\* Mutant: the miss branch returns the template's handle, not the new one.
CompileShaderMissReturnsTemplate(c, shader_handle, shader_specialization) ==
    LET specialized_handle == c.next_shader
    IN  StageResult("miss", shader_handle,
            [c EXCEPT
                !.get_specialized_shader_calls = @ + 1,
                !.next_shader = @ + 1,
                !.shaders = Put(@, specialized_handle,
                                SpecializedShaderAsset(c, shader_handle, shader_specialization)),
                !.specialized_shaders[shader_handle] =
                    Append(@, [shader |-> specialized_handle,
                               specialization |-> shader_specialization])])

\* Mutant: the miss branch stores the artifact but pushes no entry.
CompileShaderMissUntracked(c, shader_handle, shader_specialization) ==
    LET specialized_handle == c.next_shader
    IN  StageResult("miss", specialized_handle,
            [c EXCEPT
                !.get_specialized_shader_calls = @ + 1,
                !.next_shader = @ + 1,
                !.shaders = Put(@, specialized_handle,
                                SpecializedShaderAsset(c, shader_handle, shader_specialization))])

\* Mutant: the entry is pushed with an empty definition set.
CompileShaderMissForgetsDefs(c, shader_handle, shader_specialization) ==
    LET specialized_handle == c.next_shader
    IN  StageResult("miss", specialized_handle,
            [c EXCEPT
                !.get_specialized_shader_calls = @ + 1,
                !.next_shader = @ + 1,
                !.shaders = Put(@, specialized_handle,
                                SpecializedShaderAsset(c, shader_handle, shader_specialization)),
                !.specialized_shaders[shader_handle] =
                    Append(@, [shader |-> specialized_handle,
                               specialization |-> ShaderSpecializationOf({})])])

\* compile_shader, the miss branch (lines 107-123) with the backend accepting.
CompileShaderMiss(c, shader_handle, shader_specialization) ==
    LET specialized_handle == c.next_shader
    IN  StageResult("miss", specialized_handle,
            [c EXCEPT
                !.get_specialized_shader_calls = @ + 1,
                !.next_shader = @ + 1,
                !.shaders = Put(@, specialized_handle,
                                SpecializedShaderAsset(c, shader_handle, shader_specialization)),
                !.specialized_shaders[shader_handle] =
                    Append(@, [shader |-> specialized_handle,
                               specialization |-> shader_specialization])])

\* Mutant: no early return, a SPIR-V template is compiled like any other.
CompileShaderSpirvCompiled(c, shader_handle) ==
    CompileShaderMiss(c, shader_handle, ShaderSpecializationOf({}))

\* compile_shader, the SPIR-V early return (lines 91-94).
CompileShaderSpirv(c, shader_handle) == StageResult("passthrough", shader_handle, c)

\* Mutant: a found entry is compiled again.
CompileShaderHitRecompiles(c, shader_handle, found) ==
    CompileShaderMiss(c, shader_handle,
                      c.specialized_shaders[shader_handle][found].specialization)

\* compile_shader, the cache lookup (lines 96-106); found is the hit's index.
CompileShaderHit(c, shader_handle, found) ==
    StageResult("hit", c.specialized_shaders[shader_handle][found].shader, c)

\* A compile_shader that registers the entry list only when it pushes onto it.
CompileShaderRegistersOnPush(c0, shader_handle, shader_specialization, backend_ok) ==
    LET c == IF shader_handle \in DOMAIN c0.specialized_shaders
             THEN c0
             ELSE [c0 EXCEPT !.specialized_shaders = Put(@, shader_handle, <<>>)]
    IN  IF shader_handle \notin DOMAIN c.shaders
        THEN StageResult("panic", NoHandle, c0)
        ELSE IF c.shaders[shader_handle].source = "Spirv"
        THEN CompileShaderSpirv(c0, shader_handle)
        ELSE LET found == FindSpecialization(c.specialized_shaders[shader_handle],
                                             shader_specialization)
             IN  IF found # 0
                 THEN CompileShaderHit(c, shader_handle, found)
                 ELSE IF ~backend_ok
                 THEN StageResult("error", NoHandle,
                                  [c0 EXCEPT !.get_specialized_shader_calls = @ + 1])
                 ELSE CompileShaderMiss(c, shader_handle, shader_specialization)

\* A compile_shader that asks the backend a second time after a rejection.
CompileShaderRetrying(c0, shader_handle, shader_specialization, backend_ok) ==
    LET c == IF shader_handle \in DOMAIN c0.specialized_shaders
             THEN c0
             ELSE [c0 EXCEPT !.specialized_shaders = Put(@, shader_handle, <<>>)]
    IN  IF shader_handle \notin DOMAIN c.shaders
        THEN StageResult("panic", NoHandle, c)
        ELSE IF c.shaders[shader_handle].source = "Spirv"
        THEN CompileShaderSpirv(c, shader_handle)
        ELSE LET found == FindSpecialization(c.specialized_shaders[shader_handle],
                                             shader_specialization)
             IN  IF found # 0
                 THEN CompileShaderHit(c, shader_handle, found)
                 ELSE IF ~backend_ok
                 THEN StageResult("error", NoHandle,
                                  [c EXCEPT !.get_specialized_shader_calls = @ + 2])
                 ELSE CompileShaderMiss(c, shader_handle, shader_specialization)

\* compile_shader (lines 68-124).  backend_ok: get_specialized_shader accepts.
CompileShader(c0, shader_handle, shader_specialization, backend_ok) ==
    LET c == IF shader_handle \in DOMAIN c0.specialized_shaders
             THEN c0
             ELSE [c0 EXCEPT !.specialized_shaders = Put(@, shader_handle, <<>>)]
    IN  IF shader_handle \notin DOMAIN c.shaders
        THEN StageResult("panic", NoHandle, c)
        ELSE IF c.shaders[shader_handle].source = "Spirv"
        THEN CompileShaderSpirv(c, shader_handle)
        ELSE LET found == FindSpecialization(c.specialized_shaders[shader_handle],
                                             shader_specialization)
             IN  IF found # 0
                 THEN CompileShaderHit(c, shader_handle, found)
                 ELSE IF ~backend_ok
                 THEN StageResult("error", NoHandle,
                                  [c EXCEPT !.get_specialized_shader_calls = @ + 1])
                 ELSE CompileShaderMiss(c, shader_handle, shader_specialization)

StageOk(stage) == stage.outcome \in {"passthrough", "hit", "miss", "none"}

\* Mutant: the lookup skips the first entry of the list.
GetSpecializedPipelineAfterFirst(c, pipeline, specialization) ==
    IF pipeline \notin DOMAIN c.specialized_pipelines
    THEN NoHandle
    ELSE LET found == FindSpecializationAfterFirst(c.specialized_pipelines[pipeline],
                                                   specialization)
         IN  IF found = 0
             THEN NoHandle
             ELSE c.specialized_pipelines[pipeline][found].pipeline

\* The lookup that compares the vertex buffer lists as sets of buffers.
GetSpecializedPipelineUnorderedBuffers(c, pipeline, specialization) ==
    IF pipeline \notin DOMAIN c.specialized_pipelines
    THEN NoHandle
    ELSE LET entries == c.specialized_pipelines[pipeline]
             Buffers(x) == {x.vertex_buffer_descriptors[i] :
                               i \in DOMAIN x.vertex_buffer_descriptors}
             alike == {i \in DOMAIN entries :
                          /\ Buffers(entries[i].specialization) = Buffers(specialization)
                          /\ [entries[i].specialization EXCEPT
                                 !.vertex_buffer_descriptors = <<>>]
                               = [specialization EXCEPT !.vertex_buffer_descriptors = <<>>]}
         IN  IF alike = {}
             THEN NoHandle
             ELSE entries[CHOOSE i \in alike : \A j \in alike : i <= j].pipeline

\* The lookup whose comparison leaves sample_count out.
GetSpecializedPipelineIgnoringSampleCount(c, pipeline, specialization) ==
    IF pipeline \notin DOMAIN c.specialized_pipelines
    THEN NoHandle
    ELSE LET entries == c.specialized_pipelines[pipeline]
             alike == {i \in DOMAIN entries :
                          [entries[i].specialization EXCEPT
                              !.sample_count = specialization.sample_count] = specialization}
         IN  IF alike = {}
             THEN NoHandle
             ELSE entries[CHOOSE i \in alike : \A j \in alike : i <= j].pipeline

\* The lookup that takes the template's first entry whatever its specialization.
GetSpecializedPipelineFirstEntry(c, pipeline, specialization) ==
    IF pipeline \notin DOMAIN c.specialized_pipelines
    THEN NoHandle
    ELSE IF c.specialized_pipelines[pipeline] = <<>>
         THEN NoHandle
         ELSE c.specialized_pipelines[pipeline][1].pipeline

\* get_specialized_pipeline (lines 126-141): the handle, or NoHandle for None.
GetSpecializedPipeline(c, pipeline, specialization) ==
    IF pipeline \notin DOMAIN c.specialized_pipelines
    THEN NoHandle
    ELSE LET found == FindSpecialization(c.specialized_pipelines[pipeline], specialization)
         IN  IF found = 0
             THEN NoHandle
             ELSE c.specialized_pipelines[pipeline][found].pipeline

\* iter_compiled_pipelines (lines 331-344): <<>> for None, <<handles>> for Some
\* of an iterator that yields the handles.
IterCompiledPipelines(c, pipeline_handle) ==
    IF pipeline_handle \in DOMAIN c.specialized_pipelines
    THEN <<[i \in DOMAIN c.specialized_pipelines[pipeline_handle] |->
               c.specialized_pipelines[pipeline_handle][i].pipeline]>>
    ELSE <<>>

\* The orders in which HashMap::values can visit the entry lists.
ValuesOrders(c) ==
    {order \in [1 .. Cardinality(DOMAIN c.specialized_pipelines) ->
                    DOMAIN c.specialized_pipelines] :
        \A i, j \in DOMAIN order : order[i] = order[j] => i = j}

\* The handles of the first n entry lists of the order, flattened.
RECURSIVE FlattenCompiledPipelines(_, _, _)
FlattenCompiledPipelines(c, order, n) ==
    IF n = 0
    THEN <<>>
    ELSE FlattenCompiledPipelines(c, order, n - 1)
            \o [i \in DOMAIN c.specialized_pipelines[order[n]] |->
                   c.specialized_pipelines[order[n]][i].pipeline]

\* iter_all_compiled_pipelines (lines 346-355), the map visited in the order.
IterAllCompiledPipelines(c, order) == FlattenCompiledPipelines(c, order, Len(order))

\* A tracking that lists a template pipeline once per shader handle.
TrackShaderPipelineOnce(index, shader_handle, source_pipeline) ==
    IF shader_handle = NoHandle
    THEN index
    ELSE IF shader_handle \in DOMAIN index
    THEN IF \E i \in DOMAIN index[shader_handle] : index[shader_handle][i] = source_pipeline
         THEN index
         ELSE Put(index, shader_handle, Append(index[shader_handle], source_pipeline))
    ELSE Put(index, shader_handle, <<source_pipeline>>)

\* Mutant: the handle's list is replaced by the one template pipeline.
TrackShaderPipelineReplacing(index, shader_handle, source_pipeline) ==
    IF shader_handle = NoHandle
    THEN index
    ELSE Put(index, shader_handle, <<source_pipeline>>)

\* Lines 306-316: track the template pipeline under a specialized shader handle.
TrackShaderPipeline(index, shader_handle, source_pipeline) ==
    IF shader_handle = NoHandle
    THEN index
    ELSE Put(index, shader_handle,
             Append(IF shader_handle \in DOMAIN index THEN index[shader_handle] ELSE <<>>,
                    source_pipeline))

\* Mutant: the entry is pushed twice.
PushSpecializedPipelineTwice(cache, source_pipeline, handle, pipeline_specialization) ==
    LET entry == [pipeline |-> handle, specialization |-> pipeline_specialization]
    IN  Put(cache, source_pipeline,
            Append(Append(IF source_pipeline \in DOMAIN cache
                          THEN cache[source_pipeline] ELSE <<>>, entry), entry))

\* Lines 318-326: push the entry on the template pipeline's list.
PushSpecializedPipeline(cache, source_pipeline, handle, pipeline_specialization) ==
    Put(cache, source_pipeline,
        Append(IF source_pipeline \in DOMAIN cache THEN cache[source_pipeline] ELSE <<>>,
               [pipeline |-> handle, specialization |-> pipeline_specialization]))

\* The stage handle written into the specialized descriptor (lines 161-178).
SpecializedStages(vertex, fragment) ==
    [vertex |-> vertex.handle, fragment |-> fragment.handle]

\* A specialized descriptor that keeps the template's index format.
SpecializedDescriptorKeepsIndexFormat(source_descriptor, shader_stages, pipeline_specialization) ==
    [source_descriptor EXCEPT
        !.shader_stages = shader_stages,
        !.layout = <<CompileLayout(shader_stages, pipeline_specialization)>>,
        !.sample_count = pipeline_specialization.sample_count,
        !.primitive_topology = pipeline_specialization.primitive_topology]

\* Lines 151-152 and 211-297: the specialized descriptor.
SpecializedDescriptor(source_descriptor, shader_stages, pipeline_specialization) ==
    [source_descriptor EXCEPT
        !.shader_stages = shader_stages,
        !.layout = <<CompileLayout(shader_stages, pipeline_specialization)>>,
        !.sample_count = pipeline_specialization.sample_count,
        !.primitive_topology = pipeline_specialization.primitive_topology,
        !.index_format = pipeline_specialization.index_format]

\* Mutant: the pipeline is stored and registered but never materialized.
RegisterPipelineUnmaterialized(c, source_pipeline, pipeline_specialization, vertex, fragment) ==
    LET handle == c.next_pipeline
        descriptor == SpecializedDescriptor(c.pipelines[source_pipeline],
                                            SpecializedStages(vertex, fragment),
                                            pipeline_specialization)
    IN  [outcome |-> "ok", handle |-> handle, vertex |-> vertex, fragment |-> fragment,
         materialized |-> <<>>,
         c |-> [c EXCEPT
                  !.pipelines = Put(@, handle, descriptor),
                  !.next_pipeline = @ + 1,
                  !.specialized_shader_pipelines =
                      TrackShaderPipeline(
                          TrackShaderPipeline(@, vertex.handle, source_pipeline),
                          fragment.handle, source_pipeline),
                  !.specialized_pipelines =
                      PushSpecializedPipeline(@, source_pipeline, handle,
                                              pipeline_specialization)]]

\* The handles of the entries of the pipeline cache.
RegisteredPipelines(c) ==
    UNION {{c.specialized_pipelines[p][i].pipeline : i \in DOMAIN c.specialized_pipelines[p]} :
           p \in DOMAIN c.specialized_pipelines}

\* What a create_render_pipeline(handle, pipelines.get(handle).unwrap(), shaders)
\* call (lines 300-304) finds when it is made: the descriptor is in storage,
\* the handle is in the pipeline cache.
CreateRenderPipelineCall(c, handle) ==
    [pipeline_handle |-> handle,
     stored |-> handle \in DOMAIN c.pipelines,
     registered |-> handle \in RegisteredPipelines(c)]

\* A compile_pipeline tail that registers the entry first and asks the
\* backend for the pipeline last.
RegisterPipelineMaterializesLast(c, source_pipeline, pipeline_specialization, vertex, fragment) ==
    LET handle == c.next_pipeline
        descriptor == SpecializedDescriptor(c.pipelines[source_pipeline],
                                            SpecializedStages(vertex, fragment),
                                            pipeline_specialization)
        registered == [c EXCEPT
                         !.pipelines = Put(@, handle, descriptor),
                         !.next_pipeline = @ + 1,
                         !.specialized_shader_pipelines =
                             TrackShaderPipeline(
                                 TrackShaderPipeline(@, vertex.handle, source_pipeline),
                                 fragment.handle, source_pipeline),
                         !.specialized_pipelines =
                             PushSpecializedPipeline(@, source_pipeline, handle,
                                                     pipeline_specialization)]
    IN  [outcome |-> "ok", handle |-> handle, vertex |-> vertex, fragment |-> fragment,
         materialized |-> <<CreateRenderPipelineCall(registered, handle)>>,
         c |-> [registered EXCEPT !.create_render_pipeline_calls = @ + 1]]

\* Lines 299-328: store, materialize, track, register.
RegisterPipeline(c, source_pipeline, pipeline_specialization, vertex, fragment) ==
    LET handle == c.next_pipeline
        descriptor == SpecializedDescriptor(c.pipelines[source_pipeline],
                                            SpecializedStages(vertex, fragment),
                                            pipeline_specialization)
        added == [c EXCEPT
                    !.pipelines = Put(@, handle, descriptor),
                    !.next_pipeline = @ + 1]
    IN  [outcome |-> "ok", handle |-> handle, vertex |-> vertex, fragment |-> fragment,
         materialized |-> <<CreateRenderPipelineCall(added, handle)>>,
         c |-> [added EXCEPT
                  !.create_render_pipeline_calls = @ + 1,
                  !.specialized_shader_pipelines =
                      TrackShaderPipeline(
                          TrackShaderPipeline(@, vertex.handle, source_pipeline),
                          fragment.handle, source_pipeline),
                  !.specialized_pipelines =
                      PushSpecializedPipeline(@, source_pipeline, handle,
                                              pipeline_specialization)]]

NoStage(c) == StageResult("none", NoHandle, c)

Panicked(c, vertex, fragment) ==
    [outcome |-> "panic", handle |-> NoHandle, vertex |-> vertex, fragment |-> fragment,
     materialized |-> <<>>, c |-> c]

\* Mutant: a failed fragment stage undoes what the vertex stage did.
CompilePipelineRollsBack(c, source_pipeline, pipeline_specialization, vertex_ok, fragment_ok) ==
    IF source_pipeline \notin DOMAIN c.pipelines
    THEN Panicked(c, NoStage(c), NoStage(c))
    ELSE LET source_descriptor == c.pipelines[source_pipeline]
             vertex == CompileShader(c, source_descriptor.shader_stages.vertex,
                                     pipeline_specialization.shader_specialization,
                                     vertex_ok)
         IN  IF ~StageOk(vertex)
             THEN Panicked(vertex.c, vertex, NoStage(vertex.c))
             ELSE LET fragment ==
                          IF source_descriptor.shader_stages.fragment = NoHandle
                          THEN NoStage(vertex.c)
                          ELSE CompileShader(vertex.c,
                                             source_descriptor.shader_stages.fragment,
                                             pipeline_specialization.shader_specialization,
                                             fragment_ok)
                  IN  IF ~StageOk(fragment)
                      THEN Panicked([c EXCEPT !.get_specialized_shader_calls =
                                                  fragment.c.get_specialized_shader_calls],
                                    vertex, fragment)
                      ELSE RegisterPipeline(fragment.c, source_pipeline,
                                            pipeline_specialization, vertex, fragment)

\* compile_pipeline (lines 143-329).  vertex_ok / fragment_ok: the backend
\* accepts the vertex / fragment shader if it is asked to compile it.
CompilePipeline(c, source_pipeline, pipeline_specialization, vertex_ok, fragment_ok) ==
    IF source_pipeline \notin DOMAIN c.pipelines
    THEN Panicked(c, NoStage(c), NoStage(c))
    ELSE LET source_descriptor == c.pipelines[source_pipeline]
             vertex == CompileShader(c, source_descriptor.shader_stages.vertex,
                                     pipeline_specialization.shader_specialization,
                                     vertex_ok)
         IN  IF ~StageOk(vertex)
             THEN Panicked(vertex.c, vertex, NoStage(vertex.c))
             ELSE LET fragment ==
                          IF source_descriptor.shader_stages.fragment = NoHandle
                          THEN NoStage(vertex.c)
                          ELSE CompileShader(vertex.c,
                                             source_descriptor.shader_stages.fragment,
                                             pipeline_specialization.shader_specialization,
                                             fragment_ok)
                  IN  IF ~StageOk(fragment)
                      THEN Panicked(fragment.c, vertex, fragment)
                      ELSE RegisterPipeline(fragment.c, source_pipeline,
                                            pipeline_specialization, vertex, fragment)

---------------------------------------------------------------------------
(* update_shader (lines 359-407). *)

SeqRange(q) == {q[i] : i \in DOMAIN q}

\* Mutant: the pipelines are removed from storage but their entries stay cached.
EvictPipelinesAssetsOnly(c, source_pipelines) ==
    LET evicted == SeqRange(source_pipelines) \cap DOMAIN c.specialized_pipelines
        freed == UNION {{e.pipeline : e \in SeqRange(c.specialized_pipelines[p])} :
                        p \in evicted}
    IN  [c EXCEPT
            !.pipelines = [h \in (DOMAIN c.pipelines) \ freed |-> c.pipelines[h]]]

\* An eviction that clears the whole pipeline cache.
EvictPipelinesOfEveryTemplate(c, source_pipelines) ==
    LET evicted == DOMAIN c.specialized_pipelines
        freed == UNION {{e.pipeline : e \in SeqRange(c.specialized_pipelines[p])} :
                        p \in evicted}
    IN  [c EXCEPT
            !.specialized_pipelines = <<>>,
            !.pipelines = [h \in (DOMAIN c.pipelines) \ freed |-> c.pipelines[h]]]

\* An eviction that empties the entry lists and keeps their keys.
EvictPipelinesKeepsKey(c, source_pipelines) ==
    LET evicted == SeqRange(source_pipelines) \cap DOMAIN c.specialized_pipelines
        freed == UNION {{e.pipeline : e \in SeqRange(c.specialized_pipelines[p])} :
                        p \in evicted}
    IN  [c EXCEPT
            !.specialized_pipelines =
                [p \in DOMAIN c.specialized_pipelines |->
                    IF p \in evicted THEN <<>> ELSE c.specialized_pipelines[p]],
            !.pipelines = [h \in (DOMAIN c.pipelines) \ freed |-> c.pipelines[h]]]

\* Mutant: the entry lists are removed and the pipelines stay in storage.
EvictPipelinesCacheOnly(c, source_pipelines) ==
    LET evicted == SeqRange(source_pipelines) \cap DOMAIN c.specialized_pipelines
    IN  [c EXCEPT
            !.specialized_pipelines =
                [p \in (DOMAIN c.specialized_pipelines) \ evicted |->
                    c.specialized_pipelines[p]]]

\* Lines 393-401: every listed template pipeline loses its whole entry list,
\* and every entry's pipeline is removed from pipeline storage.
EvictPipelines(c, source_pipelines) ==
    LET evicted == SeqRange(source_pipelines) \cap DOMAIN c.specialized_pipelines
        freed == UNION {{e.pipeline : e \in SeqRange(c.specialized_pipelines[p])} :
                        p \in evicted}
    IN  [c EXCEPT
            !.specialized_pipelines =
                [p \in (DOMAIN c.specialized_pipelines) \ evicted |->
                    c.specialized_pipelines[p]],
            !.pipelines = [h \in (DOMAIN c.pipelines) \ freed |-> c.pipelines[h]]]

\* Mutant: the reverse index entry is dropped and nothing is evicted.
RemoveShaderPipelinesIndexOnly(c, old_handle) ==
    [c EXCEPT !.specialized_shader_pipelines =
        [h \in (DOMAIN c.specialized_shader_pipelines) \ {old_handle} |->
            c.specialized_shader_pipelines[h]]]

\* An eviction that removes, from the listed template pipelines, only the
\* entries whose stored descriptor has the old handle as a stage.
RemoveShaderPipelinesUsingHandleOnly(c, old_handle) ==
    IF old_handle \in DOMAIN c.specialized_shader_pipelines
    THEN LET listed == SeqRange(c.specialized_shader_pipelines[old_handle])
                          \cap DOMAIN c.specialized_pipelines
             Uses(e) == old_handle \in {c.pipelines[e.pipeline].shader_stages.vertex,
                                        c.pipelines[e.pipeline].shader_stages.fragment}
             freed == UNION {{e.pipeline : e \in {x \in SeqRange(c.specialized_pipelines[p]) :
                                                     Uses(x)}} : p \in listed}
             Kept(p) == SelectSeq(c.specialized_pipelines[p], LAMBDA e : ~Uses(e))
             emptied == {p \in listed : Kept(p) = <<>>}
         IN  [c EXCEPT
                !.specialized_shader_pipelines = Del(@, old_handle),
                !.specialized_pipelines =
                    [p \in (DOMAIN c.specialized_pipelines) \ emptied |->
                        IF p \in listed THEN Kept(p) ELSE c.specialized_pipelines[p]],
                !.pipelines = [h \in (DOMAIN c.pipelines) \ freed |-> c.pipelines[h]]]
    ELSE c

\* Mutant: the eviction also drops every other reverse-index key whose list
\* names an evicted template pipeline.
RemoveShaderPipelinesPurging(c, old_handle) ==
    IF old_handle \in DOMAIN c.specialized_shader_pipelines
    THEN LET listed == SeqRange(c.specialized_shader_pipelines[old_handle])
             evicted == EvictPipelines(
                            [c EXCEPT !.specialized_shader_pipelines = Del(@, old_handle)],
                            c.specialized_shader_pipelines[old_handle])
         IN  [evicted EXCEPT !.specialized_shader_pipelines =
                 [h \in {k \in DOMAIN @ : SeqRange(@[k]) \cap listed = {}} |-> @[h]]]
    ELSE c

\* Lines 385-402: drop the reverse index of the old handle and evict its pipelines.
RemoveShaderPipelines(c, old_handle) ==
    IF old_handle \in DOMAIN c.specialized_shader_pipelines
    THEN EvictPipelines(
             [c EXCEPT !.specialized_shader_pipelines = Del(@, old_handle)],
             c.specialized_shader_pipelines[old_handle])
    ELSE c

\* A swap that removes the template shader from storage, not the old artifact.
SwapSpecializedShaderRemovesTemplate(c, shader, i) ==
    LET entry == c.specialized_shaders[shader][i]
        new_handle == c.next_shader
        old_handle == entry.shader
        swapped ==
            [c EXCEPT
                !.get_specialized_shader_calls = @ + 1,
                !.next_shader = @ + 1,
                !.shaders = Del(Put(@, new_handle,
                                    SpecializedShaderAsset(c, shader, entry.specialization)),
                                shader),
                !.specialized_shaders[shader][i].shader = new_handle]
    IN  RemoveShaderPipelines(swapped, old_handle)

\* A swap that leaves the old artifact in shader storage.
SwapSpecializedShaderKeepsOld(c, shader, i) ==
    LET entry == c.specialized_shaders[shader][i]
        new_handle == c.next_shader
        old_handle == entry.shader
        swapped ==
            [c EXCEPT
                !.get_specialized_shader_calls = @ + 1,
                !.next_shader = @ + 1,
                !.shaders = Put(@, new_handle,
                                SpecializedShaderAsset(c, shader, entry.specialization)),
                !.specialized_shaders[shader][i].shader = new_handle]
    IN  RemoveShaderPipelines(swapped, old_handle)

\* A swap that stores the new artifact and removes the old one but leaves the
\* old handle in the entry.
SwapSpecializedShaderForgetsEntry(c, shader, i) ==
    LET entry == c.specialized_shaders[shader][i]
        new_handle == c.next_shader
        old_handle == entry.shader
        swapped ==
            [c EXCEPT
                !.get_specialized_shader_calls = @ + 1,
                !.next_shader = @ + 1,
                !.shaders = Del(Put(@, new_handle,
                                    SpecializedShaderAsset(c, shader, entry.specialization)),
                                old_handle)]
    IN  RemoveShaderPipelines(swapped, old_handle)

\* Lines 375-383 for entry i, the backend accepting: add the new artifact,
\* swap the entry's handle, remove the old artifact; then lines 385-402.
SwapSpecializedShader(c, shader, i) ==
    LET entry == c.specialized_shaders[shader][i]
        new_handle == c.next_shader
        old_handle == entry.shader
        swapped ==
            [c EXCEPT
                !.get_specialized_shader_calls = @ + 1,
                !.next_shader = @ + 1,
                !.shaders = Del(Put(@, new_handle,
                                    SpecializedShaderAsset(c, shader, entry.specialization)),
                                old_handle),
                !.specialized_shaders[shader][i].shader = new_handle]
    IN  RemoveShaderPipelines(swapped, old_handle)

\* Mutant: a rejected entry is skipped and the loop goes on; the error is
\* reported at the end.
RECURSIVE UpdateShaderFromSkipping(_, _, _, _)
UpdateShaderFromSkipping(c, shader, i, fail_at) ==
    IF i > Len(c.specialized_shaders[shader])
    THEN [outcome |-> IF fail_at = 0 THEN "ok" ELSE "error", failed_at |-> fail_at, c |-> c]
    ELSE IF shader \notin DOMAIN c.shaders
    THEN [outcome |-> "panic", failed_at |-> i, c |-> c]
    ELSE IF i = fail_at
    THEN UpdateShaderFromSkipping(
             [c EXCEPT !.get_specialized_shader_calls = @ + 1], shader, i + 1, fail_at)
    ELSE UpdateShaderFromSkipping(SwapSpecializedShader(c, shader, i), shader, i + 1, fail_at)

\* Mutant: the rejected entry's handle is removed from storage before the
\* backend is asked.
RECURSIVE UpdateShaderFromFreesFirst(_, _, _, _)
UpdateShaderFromFreesFirst(c, shader, i, fail_at) ==
    IF i > Len(c.specialized_shaders[shader])
    THEN [outcome |-> "ok", failed_at |-> 0, c |-> c]
    ELSE IF shader \notin DOMAIN c.shaders
    THEN [outcome |-> "panic", failed_at |-> i, c |-> c]
    ELSE IF i = fail_at
    THEN [outcome |-> "error", failed_at |-> i,
          c |-> [c EXCEPT !.get_specialized_shader_calls = @ + 1,
                          !.shaders = Del(@, c.specialized_shaders[shader][i].shader)]]
    ELSE UpdateShaderFromFreesFirst(SwapSpecializedShader(c, shader, i), shader,
                                    i + 1, fail_at)

\* Mutant: a template shader missing from storage is reported as an error.
RECURSIVE UpdateShaderFromMissingIsError(_, _, _, _)
UpdateShaderFromMissingIsError(c, shader, i, fail_at) ==
    IF i > Len(c.specialized_shaders[shader])
    THEN [outcome |-> "ok", failed_at |-> 0, c |-> c]
    ELSE IF shader \notin DOMAIN c.shaders
    THEN [outcome |-> "error", failed_at |-> i, c |-> c]
    ELSE IF i = fail_at
    THEN [outcome |-> "error", failed_at |-> i,
          c |-> [c EXCEPT !.get_specialized_shader_calls = @ + 1]]
    ELSE UpdateShaderFromMissingIsError(SwapSpecializedShader(c, shader, i), shader,
                                        i + 1, fail_at)

\* The loop of lines 367-403 from entry i on.  fail_at: the entry whose
\* recompile the backend rejects (0: it rejects none).
RECURSIVE UpdateShaderFrom(_, _, _, _)
UpdateShaderFrom(c, shader, i, fail_at) ==
    IF i > Len(c.specialized_shaders[shader])
    THEN [outcome |-> "ok", failed_at |-> 0, c |-> c]
    ELSE IF shader \notin DOMAIN c.shaders
    THEN [outcome |-> "panic", failed_at |-> i, c |-> c]
    ELSE IF i = fail_at
    THEN [outcome |-> "error", failed_at |-> i,
          c |-> [c EXCEPT !.get_specialized_shader_calls = @ + 1]]
    ELSE UpdateShaderFrom(SwapSpecializedShader(c, shader, i), shader, i + 1, fail_at)

\* An update_shader that also evicts the template pipelines whose cached
\* descriptors name the template shader itself as a stage.
UpdateShaderEvictingDirectUsers(c, shader, fail_at) ==
    LET r == IF shader \in DOMAIN c.specialized_shaders
             THEN UpdateShaderFrom(c, shader, 1, fail_at)
             ELSE [outcome |-> "ok", failed_at |-> 0, c |-> c]
        users == {p \in DOMAIN r.c.specialized_pipelines :
                     \E i \in DOMAIN r.c.specialized_pipelines[p] :
                        LET descriptor ==
                                r.c.pipelines[r.c.specialized_pipelines[p][i].pipeline]
                        IN  shader \in {descriptor.shader_stages.vertex,
                                        descriptor.shader_stages.fragment}}
        freed == UNION {{r.c.specialized_pipelines[p][i].pipeline :
                            i \in DOMAIN r.c.specialized_pipelines[p]} : p \in users}
    IN  [r EXCEPT
            !.c.specialized_pipelines =
                [p \in (DOMAIN r.c.specialized_pipelines) \ users |->
                    r.c.specialized_pipelines[p]],
            !.c.pipelines = [h \in (DOMAIN r.c.pipelines) \ freed |-> r.c.pipelines[h]]]

\* update_shader (lines 359-407).
UpdateShader(c, shader, fail_at) ==
    IF shader \in DOMAIN c.specialized_shaders
    THEN UpdateShaderFrom(c, shader, 1, fail_at)
    ELSE [outcome |-> "ok", failed_at |-> 0, c |-> c]

---------------------------------------------------------------------------
(* The state machine. *)

StageReport(stage) == [outcome |-> stage.outcome, handle |-> stage.handle]

NoReport == [outcome |-> "none", handle |-> NoHandle]

FirstShaderHandle == Cardinality(TemplateShaders) + 1

FirstPipelineHandle == Cardinality(TemplatePipelines) + 1

Init ==
    /\ shaders = TemplateShaderAssets
    /\ pipelines = TemplatePipelineAssets
    /\ specialized_shaders = <<>>
    /\ specialized_shader_pipelines = <<>>
    /\ specialized_pipelines = <<>>
    /\ next_shader = FirstShaderHandle
    /\ next_pipeline = FirstPipelineHandle
    /\ get_specialized_shader_calls = 0
    /\ create_render_pipeline_calls = 0
    /\ last = [op |-> "new", pipeline |-> NoHandle, shader |-> NoHandle,
               specialization |-> DefaultSpecialization, outcome |-> "ok",
               handle |-> NoHandle, vertex |-> NoReport, fragment |-> NoReport,
               failed_at |-> 0, evicted |-> {}, materialized |-> <<>>]

\* The program went down with a panic: nothing runs after it.
Running == last.outcome # "panic"

WithinBounds(c) ==
    /\ c.get_specialized_shader_calls <= MaxShaderCompiles
    /\ c.create_render_pipeline_calls <= MaxPipelineAdds

Commit(c) ==
    /\ WithinBounds(c)
    /\ shaders' = c.shaders
    /\ pipelines' = c.pipelines
    /\ specialized_shaders' = c.specialized_shaders
    /\ specialized_shader_pipelines' = c.specialized_shader_pipelines
    /\ specialized_pipelines' = c.specialized_pipelines
    /\ next_shader' = c.next_shader
    /\ next_pipeline' = c.next_pipeline
    /\ get_specialized_shader_calls' = c.get_specialized_shader_calls
    /\ create_render_pipeline_calls' = c.create_render_pipeline_calls

CompilePipelineCall(source_pipeline, pipeline_specialization, vertex_ok, fragment_ok) ==
    LET r == CompilePipeline(Compiler, source_pipeline, pipeline_specialization,
                             vertex_ok, fragment_ok)
    IN  /\ Commit(r.c)
        /\ last' = [op |-> "compile_pipeline", pipeline |-> source_pipeline,
                    shader |-> NoHandle, specialization |-> pipeline_specialization,
                    outcome |-> r.outcome, handle |-> r.handle,
                    vertex |-> StageReport(r.vertex), fragment |-> StageReport(r.fragment),
                    failed_at |-> 0, evicted |-> {},
                    materialized |-> r.materialized]

CompilePipelineAction ==
    /\ Running
    /\ \E source_pipeline \in TemplatePipelines, pipeline_specialization \in Specializations,
          vertex_ok \in BOOLEAN, fragment_ok \in BOOLEAN :
            CompilePipelineCall(source_pipeline, pipeline_specialization,
                                vertex_ok, fragment_ok)

GetSpecializedPipelineAction ==
    /\ Running
    /\ \E pipeline \in TemplatePipelines, specialization \in Specializations :
          LET handle == GetSpecializedPipeline(Compiler, pipeline, specialization)
          IN  last' = [op |-> "get_specialized_pipeline", pipeline |-> pipeline,
                       shader |-> NoHandle, specialization |-> specialization,
                       outcome |-> IF handle = NoHandle THEN "not_found" ELSE "found",
                       handle |-> handle, vertex |-> NoReport, fragment |-> NoReport,
                       failed_at |-> 0, evicted |-> {},
                       materialized |-> <<>>]
    /\ UNCHANGED <<shaders, pipelines, specialized_shaders, specialized_shader_pipelines,
                   specialized_pipelines, next_shader, next_pipeline,
                   get_specialized_shader_calls, create_render_pipeline_calls>>

\* The entries update_shader would walk for the shader.
EntryCount(shader) ==
    IF shader \in DOMAIN specialized_shaders THEN Len(specialized_shaders[shader]) ELSE 0

UpdateShaderCall(shader, fail_at) ==
    LET r == UpdateShader(Compiler, shader, fail_at)
    IN  /\ Commit(r.c)
        /\ last' = [op |-> "update_shader", pipeline |-> NoHandle, shader |-> shader,
                    specialization |-> DefaultSpecialization, outcome |-> r.outcome,
                    handle |-> NoHandle, vertex |-> NoReport, fragment |-> NoReport,
                    failed_at |-> r.failed_at,
                    evicted |-> (DOMAIN specialized_pipelines)
                                    \ (DOMAIN r.c.specialized_pipelines),
                    materialized |-> <<>>]

UpdateShaderAction ==
    /\ Running
    /\ \E shader \in TemplateShaders :
          \E fail_at \in 0 .. EntryCount(shader) : UpdateShaderCall(shader, fail_at)

\* The calls that take &mut self.  get_specialized_pipeline takes &self and
\* cannot change the compiler: what it would return in a state is
\* GetSpecializedPipeline(Compiler, pipeline, specialization).
Next ==
    \/ CompilePipelineAction
    \/ UpdateShaderAction

Spec == Init /\ [][Next]_vars

\* The same with the lookups as calls of their own, recorded in `last`.
NextLookup ==
    \/ CompilePipelineAction
    \/ GetSpecializedPipelineAction
    \/ UpdateShaderAction

SpecLookup == Init /\ [][NextLookup]_vars

\* The two iterators take &self; the report of the call is what they yield.
IterCompiledPipelinesAction ==
    /\ Running
    /\ \E pipeline_handle \in TemplatePipelines :
          last' = [op |-> "iter_compiled_pipelines", pipeline |-> pipeline_handle,
                   outcome |-> "ok",
                   yielded |-> IterCompiledPipelines(Compiler, pipeline_handle)]
    /\ UNCHANGED <<shaders, pipelines, specialized_shaders, specialized_shader_pipelines,
                   specialized_pipelines, next_shader, next_pipeline,
                   get_specialized_shader_calls, create_render_pipeline_calls>>

IterAllCompiledPipelinesAction ==
    /\ Running
    /\ \E order \in ValuesOrders(Compiler) :
          last' = [op |-> "iter_all_compiled_pipelines", pipeline |-> NoHandle,
                   outcome |-> "ok",
                   yielded |-> IterAllCompiledPipelines(Compiler, order)]
    /\ UNCHANGED <<shaders, pipelines, specialized_shaders, specialized_shader_pipelines,
                   specialized_pipelines, next_shader, next_pipeline,
                   get_specialized_shader_calls, create_render_pipeline_calls>>

\* The calls of Next and the two iterators.
NextIter ==
    \/ CompilePipelineAction
    \/ IterCompiledPipelinesAction
    \/ IterAllCompiledPipelinesAction
    \/ UpdateShaderAction

SpecIter == Init /\ [][NextIter]_vars

---------------------------------------------------------------------------
(* The layout steps of compile_pipeline (lines 180-294) on their own: a    *)
(* layout the backend reflected and a specialization, drawn from the sets  *)
(* below, then the layout the specialized descriptor stores.               *)

\* A second buffer of the caller: one attribute the shader does not declare
\* and one it does.
InstanceVertexBuffer ==
    [name |-> "Instance", stride |-> 28, step_mode |-> "Instance",
     attributes |-> <<[name |-> "I_Color", offset |-> 0, format |-> "Float4", shader_location |-> 3],
                      [name |-> "Vertex_Normal", offset |-> 16, format |-> "Float3", shader_location |-> 9]>>]

\* The vertex_buffer_descriptors of the specializations.
MeshVertexBufferLists ==
    { <<>>, <<MeshVertexBuffer>>, <<MeshVertexBuffer, InstanceVertexBuffer>>,
      <<InstanceVertexBuffer, MeshVertexBuffer>> }

\* The dynamic_bindings of the specializations.
DynamicBindingSets == SUBSET {"Camera", "Texture", "Transform", "Absent"}

LayoutSpecializations ==
    { [DefaultSpecialization EXCEPT !.dynamic_bindings = dynamic_bindings,
                                    !.vertex_buffer_descriptors = vertex_buffer_descriptors] :
        dynamic_bindings \in DynamicBindingSets,
        vertex_buffer_descriptors \in MeshVertexBufferLists }

\* A uniform the reflection already returns in dynamic-offset mode.
DynamicUniformBinding(name) ==
    [name |-> name, bind_type |-> [kind |-> "Uniform", dynamic |-> TRUE]]

\* The bind groups reflection returns.
ReflectedBindGroupLists ==
    { <<>>,
      <<BindGroup(0, <<UniformBinding("Camera")>>)>>,
      <<BindGroup(0, <<UniformBinding("Camera")>>),
        BindGroup(1, <<UniformBinding("Material"), SamplerBinding("Texture")>>)>>,
      <<BindGroup(0, <<UniformBinding("Camera")>>),
        BindGroup(1, <<UniformBinding("Material"), SamplerBinding("Texture")>>),
        BindGroup(2, <<DynamicUniformBinding("Transform")>>)>> }

\* The shader attributes reflection returns, in the shader's order.
ReflectedAttributeLists ==
    { <<>>,
      <<ReflectedAttribute("Vertex_Position", "Float3", 12, 0),
        ReflectedAttribute("Vertex_Normal", "Float3", 12, 1),
        ReflectedAttribute("Vertex_Uv", "Float2", 8, 2)>>,
      <<ReflectedAttribute("Vertex_Uv", "Float2", 8, 0),
        ReflectedAttribute("Vertex_Position", "Float3", 12, 1)>> }

ReflectedLayouts ==
    { [bind_groups |-> bind_groups, vertex_buffer_descriptors |-> vertex_buffer_descriptors] :
        bind_groups \in ReflectedBindGroupLists,
        vertex_buffer_descriptors \in ReflectedAttributeLists }

\* Line 180 has returned: the layout is the reflected one.
InitLayout ==
    /\ shaders = TemplateShaderAssets
    /\ pipelines = TemplatePipelineAssets
    /\ specialized_shaders = <<>>
    /\ specialized_shader_pipelines = <<>>
    /\ specialized_pipelines = <<>>
    /\ next_shader = FirstShaderHandle
    /\ next_pipeline = FirstPipelineHandle
    /\ get_specialized_shader_calls = 0
    /\ create_render_pipeline_calls = 0
    /\ \E reflected \in ReflectedLayouts, specialization \in LayoutSpecializations :
          last = [op |-> "reflect_pipeline_layout", reflected |-> reflected,
                  specialization |-> specialization, layout |-> reflected]

\* Lines 186-294: the layout that goes into the specialized descriptor.
CompileLayoutAction ==
    /\ last.op = "reflect_pipeline_layout"
    /\ last' = [last EXCEPT !.op = "layout",
                            !.layout = CompileReflectedLayout(last.reflected,
                                                              last.specialization)]
    /\ UNCHANGED <<shaders, pipelines, specialized_shaders, specialized_shader_pipelines,
                   specialized_pipelines, next_shader, next_pipeline,
                   get_specialized_shader_calls, create_render_pipeline_calls>>

NextLayout == CompileLayoutAction

SpecLayout == InitLayout /\ [][NextLayout]_vars

---------------------------------------------------------------------------
(* The cache key on its own: a template pipeline compiled for one          *)
(* specialization, then looked up for another, both built by their caller  *)
(* from the values below.                                                   *)

\* HashSet<String> built by inserting the names in this order.
HashSetOf(inserted) == {inserted[i] : i \in DOMAIN inserted}

ShaderDefInsertions == {<<>>, <<"A", "B">>, <<"B", "A">>}

DynamicBindingInsertions == {<<>>, <<"Camera", "Texture">>, <<"Texture", "Camera">>}

KeyVertexBufferLists ==
    { <<>>, <<MeshVertexBuffer, InstanceVertexBuffer>>,
      <<InstanceVertexBuffer, MeshVertexBuffer>> }

PrimitiveTopologies == {"TriangleList", "LineList"}

IndexFormats == {"Uint32", "Uint16"}

SampleCounts == {1, 4}

\* What a caller puts into the six fields.
SpecializationInputs ==
    [shader_defs : ShaderDefInsertions,
     primitive_topology : PrimitiveTopologies,
     dynamic_bindings : DynamicBindingInsertions,
     index_format : IndexFormats,
     vertex_buffer_descriptors : KeyVertexBufferLists,
     sample_count : SampleCounts]

\* The PipelineSpecialization (lines 13-21) the caller builds from them.
BuildSpecialization(input) ==
    [shader_specialization |-> ShaderSpecializationOf(HashSetOf(input.shader_defs)),
     primitive_topology |-> input.primitive_topology,
     dynamic_bindings |-> HashSetOf(input.dynamic_bindings),
     index_format |-> input.index_format,
     vertex_buffer_descriptors |-> input.vertex_buffer_descriptors,
     sample_count |-> input.sample_count]

\* PipelineCompiler::default() with the template assets in the storages.
NewCompiler ==
    [shaders |-> TemplateShaderAssets,
     pipelines |-> TemplatePipelineAssets,
     specialized_shaders |-> <<>>,
     specialized_shader_pipelines |-> <<>>,
     specialized_pipelines |-> <<>>,
     next_shader |-> FirstShaderHandle,
     next_pipeline |-> FirstPipelineHandle,
     get_specialized_shader_calls |-> 0,
     create_render_pipeline_calls |-> 0]

\* compile_pipeline has returned for a template pipeline and a specialization
\* the caller built.
InitKey ==
    \E source_pipeline \in TemplatePipelines, input \in SpecializationInputs :
        LET r == CompilePipeline(NewCompiler, source_pipeline, BuildSpecialization(input),
                                 TRUE, TRUE)
        IN  /\ shaders = r.c.shaders
            /\ pipelines = r.c.pipelines
            /\ specialized_shaders = r.c.specialized_shaders
            /\ specialized_shader_pipelines = r.c.specialized_shader_pipelines
            /\ specialized_pipelines = r.c.specialized_pipelines
            /\ next_shader = r.c.next_shader
            /\ next_pipeline = r.c.next_pipeline
            /\ get_specialized_shader_calls = r.c.get_specialized_shader_calls
            /\ create_render_pipeline_calls = r.c.create_render_pipeline_calls
            /\ last = [op |-> "compile_pipeline", pipeline |-> source_pipeline,
                       cached |-> input,
                       requested |-> input, outcome |-> r.outcome, handle |-> r.handle]

\* get_specialized_pipeline for a specialization the caller built.
GetSpecializedPipelineByKeyAction ==
    /\ last.op = "compile_pipeline"
    /\ \E input \in SpecializationInputs :
          LET handle == GetSpecializedPipeline(Compiler, last.pipeline,
                                               BuildSpecialization(input))
          IN  last' = [op |-> "get_specialized_pipeline", pipeline |-> last.pipeline,
                       cached |-> last.cached, requested |-> input,
                       outcome |-> IF handle = NoHandle THEN "not_found" ELSE "found",
                       handle |-> handle]
    /\ UNCHANGED <<shaders, pipelines, specialized_shaders, specialized_shader_pipelines,
                   specialized_pipelines, next_shader, next_pipeline,
                   get_specialized_shader_calls, create_render_pipeline_calls>>

NextKey == GetSpecializedPipelineByKeyAction

SpecKey == InitKey /\ [][NextKey]_vars

---------------------------------------------------------------------------
(* Vocabulary of the properties. *)

\* The entries of a template's list (empty when the template has no list).
PipelineEntries(p) ==
    IF p \in DOMAIN specialized_pipelines THEN specialized_pipelines[p] ELSE <<>>

ShaderEntries(t) ==
    IF t \in DOMAIN specialized_shaders THEN specialized_shaders[t] ELSE <<>>

\* The stage handles of a stored descriptor, None left out.
StageHandles(descriptor) ==
    {descriptor.shader_stages.vertex, descriptor.shader_stages.fragment} \ {NoHandle}

\* The step is a compile_pipeline call that returned a handle.
CompiledStep ==
    /\ last'.op = "compile_pipeline"
    /\ last'.outcome = "ok"

\* The step is an update_shader call that returned Ok(()).
UpdatedStep ==
    /\ last'.op = "update_shader"
    /\ last'.outcome = "ok"

---------------------------------------------------------------------------
(* C1 *)

---------------------------------------------------------------------------
(* C2 *)

---------------------------------------------------------------------------
(* C3 *)

\* C3 as stated: every cached specialized pipeline's vertex stage handle and,
\* if present, fragment stage handle differ from the template pipeline's,
\* whatever form the template shaders have.
C3_StagesNeverTemplateHandles ==
    \A p \in DOMAIN specialized_pipelines :
        \A i \in DOMAIN specialized_pipelines[p] :
            LET compiled == pipelines[specialized_pipelines[p][i].pipeline].shader_stages
                template == pipelines[p].shader_stages
            IN  /\ compiled.vertex # template.vertex
                /\ compiled.fragment # NoHandle => compiled.fragment # template.fragment

\* The stage handle compiled from a template stage handle differs from it
\* exactly when the template shader is not SPIR-V.
StageSpecialized(compiled, template) ==
    IF template = NoHandle
    THEN compiled = NoHandle
    ELSE IF shaders[template].source = "Spirv"
    THEN compiled = template
    ELSE /\ compiled # template
         /\ compiled \notin TemplateShaders
         /\ compiled \in {e.shader : e \in SeqRange(ShaderEntries(template))}

\* C3 amended: every cached specialized pipeline's stage handle differs from
\* the template's stage handle when the template shader is not in SPIR-V form
\* (it is a specialized handle, never a template handle), and equals the
\* template's stage handle when the template shader is SPIR-V.
C3_StagesSpecializedUnlessSpirv ==
    \A p \in DOMAIN specialized_pipelines :
        \A i \in DOMAIN specialized_pipelines[p] :
            LET compiled == pipelines[specialized_pipelines[p][i].pipeline].shader_stages
                template == pipelines[p].shader_stages
            IN  /\ StageSpecialized(compiled.vertex, template.vertex)
                /\ StageSpecialized(compiled.fragment, template.fragment)

\* A pipeline with a SPIR-V vertex stage and a GLSL fragment stage is cached.
C3_Witness ==
    /\ P3 \in DOMAIN specialized_pipelines
    /\ Len(specialized_pipelines[P3]) >= 1
    /\ P1 \in DOMAIN specialized_pipelines

---------------------------------------------------------------------------
(* C4 *)

\* The specialized pipelines in the cache whose stored descriptor names the handle.
CachedPipelinesUsing(handle) ==
    {e.pipeline : e \in UNION {SeqRange(specialized_pipelines[p]) :
                                p \in DOMAIN specialized_pipelines}}
        \cap {h \in DOMAIN pipelines : handle \in StageHandles(pipelines[h])}

\* C4: when update_shader returns Ok, no specialized pipeline still in the
\* pipeline cache has a vertex or fragment stage handle that the call removed
\* from shader storage.
C4_NoSurvivorUsesFreedShader ==
    [][UpdatedStep =>
        \A freed \in (DOMAIN shaders) \ (DOMAIN shaders') :
            CachedPipelinesUsing(freed)' = {}]_vars

\* update_shader succeeded, swapped at least one entry, evicted a template
\* pipeline, and another template pipeline's entries survive.
C4_Witness ==
    /\ last.op = "update_shader"
    /\ last.outcome = "ok"
    /\ Len(ShaderEntries(last.shader)) >= 1
    /\ last.evicted # {}
    /\ \E p \in DOMAIN specialized_pipelines : Len(specialized_pipelines[p]) >= 1

---------------------------------------------------------------------------
(* C5 *)

\* The specialized shader handles currently held by the template shader's entries.
SpecializedHandlesOf(t) == {e.shader : e \in SeqRange(ShaderEntries(t))}

\* Some entry of template pipeline p with the specialization has a stage
\* compiled from template shader t.
ConsumesSpecializedShader(p, specialization, t) ==
    \E e \in SeqRange(PipelineEntries(p)) :
        /\ e.specialization = specialization
        /\ e.pipeline \in DOMAIN pipelines
        /\ StageHandles(pipelines[e.pipeline]) \cap SpecializedHandlesOf(t) # {}

\* C5: when update_shader(t) returns Ok, get_specialized_pipeline finds nothing
\* for every pair whose specialized pipeline consumed a specialized version of
\* t; and a pair for which get_specialized_pipeline finds nothing is found
\* again only by a compile_pipeline call for that very pair.
C5_NotFoundUntilRecompiled ==
    [][\A p \in TemplatePipelines, s \in Specializations :
        /\ (UpdatedStep /\ ConsumesSpecializedShader(p, s, last'.shader))
              => GetSpecializedPipeline(Compiler', p, s) = NoHandle
        /\ (/\ GetSpecializedPipeline(Compiler, p, s) = NoHandle
            /\ GetSpecializedPipeline(Compiler', p, s) # NoHandle)
              => (/\ last'.op = "compile_pipeline"
                  /\ last'.pipeline = p
                  /\ last'.specialization = s)]_vars

\* A lookup after a successful update_shader that evicted the template pipeline
\* finds nothing.
C5_Witness ==
    /\ last.op = "update_shader"
    /\ last.outcome = "ok"
    /\ last.evicted # {}
    /\ \A p \in last.evicted, s \in Specializations :
          GetSpecializedPipeline(Compiler, p, s) = NoHandle

---------------------------------------------------------------------------
(* C6 *)

\* The template pipelines the reverse index lists for a shader handle.
ListedPipelines(handle) ==
    IF handle \in DOMAIN specialized_shader_pipelines
    THEN SeqRange(specialized_shader_pipelines[handle])
    ELSE {}

\* C6: when update_shader(t) fails on entry i it returns right after that
\* backend call; every entry before i holds a new handle that is in storage,
\* its old handle is gone from storage and from the reverse index and the
\* template pipelines listed for it are evicted with their pipelines removed
\* from storage; entry i and the later entries are unchanged and their handles
\* are still in storage.
C6_PartialUpdateIsKept ==
    [][(last'.op = "update_shader" /\ last'.outcome = "error") =>
        LET t == last'.shader
            i == last'.failed_at
            old == specialized_shaders[t]
            new == specialized_shaders'[t]
        IN  /\ i \in DOMAIN old
            /\ Len(new) = Len(old)
            /\ get_specialized_shader_calls' = get_specialized_shader_calls + i
            /\ \A j \in DOMAIN old :
                  IF j < i
                  THEN /\ new[j].specialization = old[j].specialization
                       /\ new[j].shader # old[j].shader
                       /\ new[j].shader \notin DOMAIN shaders
                       /\ new[j].shader \in DOMAIN shaders'
                       /\ old[j].shader \notin DOMAIN shaders'
                       /\ old[j].shader \notin DOMAIN specialized_shader_pipelines'
                       /\ \A p \in ListedPipelines(old[j].shader) :
                             /\ p \notin DOMAIN specialized_pipelines'
                             /\ \A e \in SeqRange(PipelineEntries(p)) :
                                   e.pipeline \notin DOMAIN pipelines'
                  ELSE /\ new[j] = old[j]
                       /\ old[j].shader \in DOMAIN shaders']_vars

\* update_shader failed on its second entry after swapping the first and
\* evicting a template pipeline.
C6_Witness ==
    /\ last.op = "update_shader"
    /\ last.outcome = "error"
    /\ last.failed_at = 2
    /\ last.evicted # {}

---------------------------------------------------------------------------
(* Shader compile requests made by a compile_pipeline step. *)

\* The compile_pipeline step passed template shader t to compile_shader as its
\* vertex or fragment stage; `report` is what that call returned.
RequestedStage(t, report) ==
    /\ last'.op = "compile_pipeline"
    /\ last'.pipeline \in DOMAIN pipelines
    /\ \/ /\ pipelines[last'.pipeline].shader_stages.vertex = t
          /\ report = last'.vertex
       \/ /\ pipelines[last'.pipeline].shader_stages.fragment = t
          /\ report = last'.fragment
          /\ report.outcome # "none"

\* The template shaders the step passed to compile_shader.
RequestedShaders ==
    {t \in TemplateShaders : \E report \in {last'.vertex, last'.fragment} :
                                RequestedStage(t, report)}

\* The shader assets added by the step that were compiled from template t.
AddedFrom(t) ==
    {h \in (DOMAIN shaders') \ (DOMAIN shaders) : shaders'[h].template = t}

\* Template t is not SPIR-V and has an entry for the definition set.
Cached(t, shader_specialization) ==
    /\ t \in DOMAIN shaders
    /\ shaders[t].source # "Spirv"
    /\ FindSpecialization(ShaderEntries(t), shader_specialization) # 0

---------------------------------------------------------------------------
(* C7 *)

\* C7: a shader compile for template t with a definition set equal to that of
\* an entry t already has returns that entry's handle, appends no entry and
\* inserts no asset; the step makes at most one backend compile call per
\* requested stage that was not cached.
C7_CachedShaderIsReused ==
    [][/\ \A t \in TemplateShaders : \A report \in {last'.vertex, last'.fragment} :
            (/\ RequestedStage(t, report)
             /\ Cached(t, last'.specialization.shader_specialization))
            => (/\ report.handle =
                     ShaderEntries(t)[FindSpecialization(ShaderEntries(t),
                         last'.specialization.shader_specialization)].shader
                /\ specialized_shaders'[t] = specialized_shaders[t]
                /\ AddedFrom(t) = {})
       /\ last'.op = "compile_pipeline" =>
            get_specialized_shader_calls' - get_specialized_shader_calls
              <= Cardinality({t \in RequestedShaders :
                    ~Cached(t, last'.specialization.shader_specialization)})]_vars

\* A compile_pipeline call found both of its stages in the shader cache, under
\* a definition set that is not empty.
C7_Witness ==
    /\ last.op = "compile_pipeline"
    /\ last.outcome = "ok"
    /\ last.vertex.outcome = "hit"
    /\ last.fragment.outcome = "hit"
    /\ last.specialization.shader_specialization.shader_defs # {}

---------------------------------------------------------------------------
(* C8 *)

\* The ShaderSpecializations of the template shader's entries.
CachedSpecializations(t) == {e.specialization : e \in SeqRange(ShaderEntries(t))}

\* C8 as stated, read off the cache: two cached pipelines whose templates
\* share the vertex template shader and whose definition sets differ have
\* different vertex stage handles.
C8_DistinctSpecializationsDistinctHandles ==
    \A p1, p2 \in DOMAIN specialized_pipelines :
        \A e1 \in SeqRange(specialized_pipelines[p1]),
           e2 \in SeqRange(specialized_pipelines[p2]) :
            (/\ pipelines[p1].shader_stages.vertex = pipelines[p2].shader_stages.vertex
             /\ e1.specialization.shader_specialization
                   # e2.specialization.shader_specialization)
            => pipelines[e1.pipeline].shader_stages.vertex
                   # pipelines[e2.pipeline].shader_stages.vertex

\* The same for template shaders that are not SPIR-V, for both stages.
DistinctHandlesUnlessSpirv ==
    \A p1, p2 \in DOMAIN specialized_pipelines :
        \A e1 \in SeqRange(specialized_pipelines[p1]),
           e2 \in SeqRange(specialized_pipelines[p2]) :
            \A stage \in {"vertex", "fragment"} :
                LET t1 == pipelines[p1].shader_stages[stage]
                    t2 == pipelines[p2].shader_stages[stage]
                IN  (/\ t1 = t2
                     /\ t1 # NoHandle
                     /\ shaders[t1].source # "Spirv"
                     /\ e1.specialization.shader_specialization
                           # e2.specialization.shader_specialization)
                    => pipelines[e1.pipeline].shader_stages[stage]
                           # pipelines[e2.pipeline].shader_stages[stage]

\* Each entry of each template shader is the only one with its specialization
\* and the only one with its handle.
OneEntryPerSpecialization ==
    \A t \in DOMAIN specialized_shaders :
        \A i, j \in DOMAIN specialized_shaders[t] :
            i # j => /\ specialized_shaders[t][i].specialization
                          # specialized_shaders[t][j].specialization
                     /\ specialized_shaders[t][i].shader # specialized_shaders[t][j].shader

\* C8 amended: for distinct specializations against the same template shader
\* that is not SPIR-V, compile returns distinct handles, and the cache holds
\* exactly one entry per distinct specialization that was requested and that
\* the backend compiled: each step adds to a template's cached specializations
\* exactly the requested ones that returned a handle (for a SPIR-V template,
\* none), and no entry is ever dropped.
C8_OneEntryPerCompiledSpecialization ==
    [][/\ DistinctHandlesUnlessSpirv'
       /\ OneEntryPerSpecialization'
       /\ \A t \in TemplateShaders :
            CachedSpecializations(t)' =
                CachedSpecializations(t) \cup
                    {last'.specialization.shader_specialization :
                        report \in {r \in {last'.vertex, last'.fragment} :
                                       /\ RequestedStage(t, r)
                                       /\ shaders[t].source # "Spirv"
                                       /\ r.outcome \in {"hit", "miss"}}}]_vars

\* One template shader holds entries for two definition sets and two cached
\* pipelines use them.
C8_Witness ==
    /\ Len(ShaderEntries(VS)) >= 2
    /\ \E p1, p2 \in DOMAIN specialized_pipelines :
          \E e1 \in SeqRange(specialized_pipelines[p1]),
             e2 \in SeqRange(specialized_pipelines[p2]) :
              /\ pipelines[e1.pipeline].shader_stages.vertex = ShaderEntries(VS)[1].shader
              /\ pipelines[e2.pipeline].shader_stages.vertex = ShaderEntries(VS)[2].shader

---------------------------------------------------------------------------
(* C9 *)

\* C9: in every reachable state, also after an update_shader call that failed
\* partway, no two entries of one template shader's list have equal
\* ShaderSpecializations.
C9_NoDuplicateShaderSpecialization ==
    \A t \in DOMAIN specialized_shaders :
        \A i, j \in DOMAIN specialized_shaders[t] :
            i < j => specialized_shaders[t][i].specialization.shader_defs
                        # specialized_shaders[t][j].specialization.shader_defs

\* update_shader failed on the second of a template shader's two entries.
C9_Witness ==
    /\ Len(ShaderEntries(VS)) >= 2
    /\ last.op = "update_shader"
    /\ last.shader = VS
    /\ last.outcome = "error"
    /\ last.failed_at = 2

---------------------------------------------------------------------------
(* C10 *)

\* C10: a shader compile for a template shader in SPIR-V form returns the
\* template's own handle whatever the definitions, appends no entry to its
\* (empty) entry list, inserts no asset, and makes no backend compile call:
\* the step's backend compile calls are at most its requested stages that are
\* not SPIR-V.
C10_SpirvPassesThrough ==
    [][/\ \A t \in TemplateShaders : \A report \in {last'.vertex, last'.fragment} :
            (/\ RequestedStage(t, report)
             /\ t \in DOMAIN shaders
             /\ shaders[t].source = "Spirv")
            => (/\ report.handle = t
                /\ t \in DOMAIN specialized_shaders'
                /\ specialized_shaders'[t] = <<>>
                /\ AddedFrom(t) = {})
       /\ last'.op = "compile_pipeline" =>
            get_specialized_shader_calls' - get_specialized_shader_calls
              <= Cardinality({t \in RequestedShaders : shaders[t].source # "Spirv"})]_vars

\* The SPIR-V template was compiled under an empty and under a non-empty
\* definition set.
C10_Witness ==
    /\ \E i, j \in DOMAIN PipelineEntries(P3) :
          /\ PipelineEntries(P3)[i].specialization.shader_specialization.shader_defs = {}
          /\ PipelineEntries(P3)[j].specialization.shader_specialization.shader_defs # {}
          /\ pipelines[PipelineEntries(P3)[i].pipeline].shader_stages.vertex = BIN
          /\ pipelines[PipelineEntries(P3)[j].pipeline].shader_stages.vertex = BIN
    /\ ShaderEntries(BIN) = <<>>

---------------------------------------------------------------------------
(* C11 *)

\* The indexes of the template pipeline's entries that hold the specialization.
MatchingEntries(p, specialization) ==
    {i \in DOMAIN PipelineEntries(p) :
        PipelineEntries(p)[i].specialization = specialization}

\* C11: a get_specialized_pipeline call compiles and mutates nothing: the three
\* maps of the compiler, both asset storages and the backend call counts are
\* the same after it.  It returns a handle exactly when the template pipeline
\* has an entry whose specialization equals the argument, the handle of the
\* first such entry, and not-found otherwise.
C11_LookupReadsFirstMatch ==
    [][last'.op = "get_specialized_pipeline" =>
        /\ UNCHANGED <<shaders, pipelines, specialized_shaders,
                       specialized_shader_pipelines, specialized_pipelines,
                       get_specialized_shader_calls, create_render_pipeline_calls>>
        /\ LET matches == MatchingEntries(last'.pipeline, last'.specialization)
           IN  IF matches = {}
               THEN /\ last'.outcome = "not_found"
                    /\ last'.handle = NoHandle
               ELSE /\ last'.outcome = "found"
                    /\ \E i \in matches :
                          /\ \A j \in matches : i <= j
                          /\ last'.handle = PipelineEntries(last'.pipeline)[i].pipeline
      ]_vars

\* A lookup found the second of a template pipeline's two entries.
C11_Witness ==
    /\ last.op = "get_specialized_pipeline"
    /\ last.outcome = "found"
    /\ Len(PipelineEntries(last.pipeline)) = 2
    /\ MatchingEntries(last.pipeline, last.specialization) = {2}
    /\ last.handle = PipelineEntries(last.pipeline)[2].pipeline

---------------------------------------------------------------------------
(* C12 *)

\* The reflected shader attribute of the name is at the shader-location.
ReflectedAt(reflected, name, shader_location) ==
    \E r \in DOMAIN reflected.vertex_buffer_descriptors :
        /\ reflected.vertex_buffer_descriptors[r].attributes[1].name = name
        /\ reflected.vertex_buffer_descriptors[r].attributes[1].shader_location
              = shader_location

---------------------------------------------------------------------------
(* C13 *)

\* The two specializations differ in sample_count and in nothing else.
DifferOnlyInSampleCount(a, b) ==
    /\ a.sample_count # b.sample_count
    /\ [a EXCEPT !.sample_count = b.sample_count] = b

\* C13: when a template pipeline that is cached for one specialization is
\* compiled for a specialization that differs from it only in sample_count
\* (1 and 4), the new handle is distinct from the cached one, and afterwards
\* get_specialized_pipeline returns each handle for its own specialization,
\* each naming a stored descriptor with its own sample_count.
C13_SampleCountsGetOwnPipelines ==
    [][CompiledStep =>
        \A other \in Specializations :
            (/\ DifferOnlyInSampleCount(other, last'.specialization)
             /\ MatchingEntries(last'.pipeline, other) # {}
             /\ MatchingEntries(last'.pipeline, last'.specialization) = {})
            => LET cached == GetSpecializedPipeline(Compiler, last'.pipeline, other)
               IN  /\ cached # NoHandle
                   /\ last'.handle # cached
                   /\ GetSpecializedPipeline(Compiler', last'.pipeline,
                                             last'.specialization) = last'.handle
                   /\ GetSpecializedPipeline(Compiler', last'.pipeline, other) = cached
                   /\ pipelines'[last'.handle].sample_count
                         = last'.specialization.sample_count
                   /\ pipelines'[cached].sample_count = other.sample_count
      ]_vars

\* A template pipeline compiled with sample_count 1, then with sample_count 4.
C13_Witness ==
    /\ last.op = "compile_pipeline"
    /\ last.outcome = "ok"
    /\ last.specialization = [DefaultSpecialization EXCEPT !.sample_count = 4]
    /\ Len(PipelineEntries(last.pipeline)) = 2
    /\ PipelineEntries(last.pipeline)[1].specialization = DefaultSpecialization
    /\ PipelineEntries(last.pipeline)[2].pipeline = last.handle
    /\ PipelineEntries(last.pipeline)[1].pipeline # last.handle

---------------------------------------------------------------------------
(* C14 *)

\* C14: an update_shader call for a template shader that has no specialized
\* entry (it was never requested, or it was requested only as a SPIR-V binary,
\* whatever pipelines were compiled from it) returns Ok(()) and changes
\* nothing: the cache, the reverse index, the entry lists, both asset storages
\* and the backend call counts are the same after it.
C14_UpdateWithoutEntriesChangesNothing ==
    [][(/\ last'.op = "update_shader"
        /\ ShaderEntries(last'.shader) = <<>>)
       => /\ last'.outcome = "ok"
          /\ UNCHANGED <<shaders, pipelines, specialized_shaders,
                         specialized_shader_pipelines, specialized_pipelines,
                         get_specialized_shader_calls, create_render_pipeline_calls>>
      ]_vars

\* update_shader ran for the SPIR-V template while a cached pipeline has it
\* as its vertex stage.
C14_Witness ==
    /\ last.op = "update_shader"
    /\ last.outcome = "ok"
    /\ last.shader = BIN
    /\ BIN \in DOMAIN specialized_shaders
    /\ ShaderEntries(BIN) = <<>>
    /\ \E i \in DOMAIN PipelineEntries(P3) :
          pipelines[PipelineEntries(P3)[i].pipeline].shader_stages.vertex = BIN

---------------------------------------------------------------------------
(* C15 *)

\* C15: compile_pipeline and update_shader neither modify nor remove a
\* template: after any sequence of calls every template shader and every
\* template pipeline descriptor is in its storage with the value it had at
\* the start.
C15_TemplatesKeepInitialValue ==
    /\ \A t \in TemplateShaders :
          /\ t \in DOMAIN shaders
          /\ shaders[t] = TemplateShaderAssets[t]
    /\ \A p \in TemplatePipelines :
          /\ p \in DOMAIN pipelines
          /\ pipelines[p] = TemplatePipelineAssets[p]

\* A template pipeline was compiled, evicted by an update of its vertex
\* shader and compiled again.
C15_Witness ==
    /\ last.op = "compile_pipeline"
    /\ last.outcome = "ok"
    /\ last.vertex.outcome = "hit"
    /\ create_render_pipeline_calls = 2
    /\ Len(PipelineEntries(last.pipeline)) = 1
    /\ DOMAIN specialized_pipelines = {last.pipeline}
    /\ next_shader > last.vertex.handle + 1

---------------------------------------------------------------------------
(* C16 *)

\* The names of the bindings of the reflected bind groups.
ReflectedBindingNames(reflected) ==
    UNION {{reflected.bind_groups[g].bindings[b].name :
               b \in DOMAIN reflected.bind_groups[g].bindings} :
           g \in DOMAIN reflected.bind_groups}

\* C16: when none of the specialization's dynamic-binding names is the name of
\* a binding in a bind group of the reflected layout, compile_pipeline changes
\* no binding's dynamic flag and bumps no bind group's stamp: the bind groups
\* of the stored layout are the reflected ones.  The layout is produced; there
\* is no error outcome.
C16_UnmatchedNamesChangeNoBindGroup ==
    (/\ last.op = "layout"
     /\ last.specialization.dynamic_bindings \cap ReflectedBindingNames(last.reflected) = {})
    => last.layout.bind_groups = last.reflected.bind_groups

\* A name that no binding has was requested for a layout of three bind groups.
C16_Witness ==
    /\ last.op = "layout"
    /\ last.specialization.dynamic_bindings = {"Absent"}
    /\ Len(last.reflected.bind_groups) = 3
    /\ \A g \in DOMAIN last.layout.bind_groups : last.layout.bind_groups[g].id = 0

---------------------------------------------------------------------------
(* C17 *)

\* The stage reports of the call with the template shader each was asked for.
StageCompiles(report) ==
    {[template |-> TemplatePipelineAssets[report.pipeline].shader_stages.vertex,
      outcome |-> report.vertex.outcome],
     [template |-> TemplatePipelineAssets[report.pipeline].shader_stages.fragment,
      outcome |-> report.fragment.outcome]}

\* C17: when the backend rejects a shader compile, compile_shader returns the
\* error after that one backend call (the calls of the step are one per stage
\* compiled before plus one, none is retried), nothing compiled from the
\* template is inserted into shader storage, and the template's entry list
\* has the entries it had.
C17_RejectedCompileLeavesNoTrace ==
    [][last'.op = "compile_pipeline" =>
        \A stage \in StageCompiles(last') :
            stage.outcome = "error" =>
                /\ get_specialized_shader_calls' = get_specialized_shader_calls + 1
                      + Cardinality({other \in StageCompiles(last') :
                                        other.outcome = "miss"})
                /\ \A h \in (DOMAIN shaders') \ (DOMAIN shaders) :
                      shaders'[h].template # stage.template
                /\ stage.template \in DOMAIN specialized_shaders'
                /\ specialized_shaders'[stage.template] = ShaderEntries(stage.template)
                /\ last'.handle = NoHandle
      ]_vars

\* The vertex shader was compiled and stored, then the backend rejected the
\* fragment shader, which has an empty entry list.
C17_Witness ==
    /\ last.op = "compile_pipeline"
    /\ last.vertex.outcome = "miss"
    /\ last.fragment.outcome = "error"
    /\ FS \in DOMAIN specialized_shaders
    /\ ShaderEntries(FS) = <<>>
    /\ get_specialized_shader_calls = 2

---------------------------------------------------------------------------
(* C18 *)

\* Some cached pipeline of template pipeline p has a stage that is a current
\* specialized handle of template shader t.
UsesSpecializedShader(p, t) ==
    \E e \in SeqRange(PipelineEntries(p)) :
        StageHandles(pipelines[e.pipeline]) \cap SpecializedHandlesOf(t) # {}

\* The step keeps the entries template pipeline p had, in place, with their
\* handles and their stored descriptors.
EntriesKept(p) ==
    /\ p \in DOMAIN specialized_pipelines'
    /\ Len(specialized_pipelines'[p]) >= Len(specialized_pipelines[p])
    /\ \A i \in DOMAIN specialized_pipelines[p] :
          /\ specialized_pipelines'[p][i] = specialized_pipelines[p][i]
          /\ specialized_pipelines[p][i].pipeline \in DOMAIN pipelines'
          /\ pipelines'[specialized_pipelines[p][i].pipeline]
                = pipelines[specialized_pipelines[p][i].pipeline]

\* C18: a pipeline cache entry stays, with the same handle, until update_shader
\* evicts it: no other call removes or changes an entry, and an update_shader
\* call for a template shader none of whose specialized handles is a stage of
\* a cached pipeline of template pipeline P leaves P's entries and their
\* pipeline assets as they were.
C18_EntriesPersistUntilEvicted ==
    [][\A p \in DOMAIN specialized_pipelines :
          /\ last'.op # "update_shader" => EntriesKept(p)
          /\ (/\ last'.op = "update_shader"
              /\ ~UsesSpecializedShader(p, last'.shader))
             => /\ EntriesKept(p)
                /\ specialized_pipelines'[p] = specialized_pipelines[p]
      ]_vars

\* An update of the vertex template evicted a template pipeline while the
\* pipeline compiled from the SPIR-V vertex shader kept its entry.
C18_Witness ==
    /\ last.op = "update_shader"
    /\ last.shader = VS
    /\ last.evicted # {}
    /\ P3 \notin last.evicted
    /\ Len(PipelineEntries(P3)) = 1
    /\ PipelineEntries(P3)[1].pipeline \in DOMAIN pipelines

---------------------------------------------------------------------------
(* C19 *)

\* The handles of all entries of all template pipelines.
AllCachedHandles ==
    UNION {{e.pipeline : e \in SeqRange(PipelineEntries(p))} : p \in TemplatePipelines}

\* C19: iter_compiled_pipelines(template) yields the handles of the template's
\* current cache entries, in cache order, and is None for a template that has
\* no entry list, one whose entries update_shader evicted included (it is
\* never Some of nothing); iter_all_compiled_pipelines yields the handles of
\* all entries of all templates, each once; neither call changes the maps,
\* the storages or the backend call counts.
C19_IteratorsYieldTheCache ==
    [][/\ last'.op = "iter_compiled_pipelines" =>
            /\ UNCHANGED <<shaders, pipelines, specialized_shaders,
                           specialized_shader_pipelines, specialized_pipelines,
                           get_specialized_shader_calls, create_render_pipeline_calls>>
            /\ IF PipelineEntries(last'.pipeline) = <<>>
               THEN last'.yielded = <<>>
               ELSE /\ Len(last'.yielded) = 1
                    /\ Len(last'.yielded[1]) = Len(PipelineEntries(last'.pipeline))
                    /\ \A i \in DOMAIN PipelineEntries(last'.pipeline) :
                          last'.yielded[1][i] = PipelineEntries(last'.pipeline)[i].pipeline
       /\ last'.op = "iter_all_compiled_pipelines" =>
            /\ UNCHANGED <<shaders, pipelines, specialized_shaders,
                           specialized_shader_pipelines, specialized_pipelines,
                           get_specialized_shader_calls, create_render_pipeline_calls>>
            /\ SeqRange(last'.yielded) = AllCachedHandles
            /\ Len(last'.yielded) = Cardinality(AllCachedHandles)
       /\ last'.op = "update_shader" =>
            \A p \in last'.evicted : IterCompiledPipelines(Compiler', p) = <<>>
      ]_vars

\* The iterator is None for a template pipeline that was compiled (it is still
\* listed in the reverse index) and then evicted, while another template
\* pipeline is cached.
C19_Witness ==
    /\ last.op = "iter_compiled_pipelines"
    /\ last.yielded = <<>>
    /\ \E h \in DOMAIN specialized_shader_pipelines :
          last.pipeline \in SeqRange(specialized_shader_pipelines[h])
    /\ AllCachedHandles # {}

---------------------------------------------------------------------------
(* C20 *)

\* The number of entries the update_shader call of the step got through.
ProcessedEntries ==
    IF last'.outcome = "ok"
    THEN Len(ShaderEntries(last'.shader))
    ELSE last'.failed_at - 1

\* C20: for every specialized entry that an update_shader call gets through,
\* the entry's handle is replaced by a handle newly added to shader storage
\* (the template compiled with the entry's definitions) and the old handle is
\* removed from shader storage; the template keeps its number of entries and
\* every entry keeps its specialization; the entries of the other template
\* shaders are untouched.
C20_UpdateSwapsHandlesInPlace ==
    [][(/\ last'.op = "update_shader"
        /\ last'.outcome \in {"ok", "error"})
       => /\ DOMAIN specialized_shaders' = DOMAIN specialized_shaders
          /\ \A t \in (DOMAIN specialized_shaders) \ {last'.shader} :
                specialized_shaders'[t] = specialized_shaders[t]
          /\ last'.shader \in DOMAIN specialized_shaders =>
                LET old == specialized_shaders[last'.shader]
                    new == specialized_shaders'[last'.shader]
                IN  /\ Len(new) = Len(old)
                    /\ \A i \in DOMAIN old :
                          /\ new[i].specialization = old[i].specialization
                          /\ i > ProcessedEntries => new[i] = old[i]
                          /\ i <= ProcessedEntries =>
                                /\ new[i].shader \notin DOMAIN shaders
                                /\ new[i].shader \in DOMAIN shaders'
                                /\ shaders'[new[i].shader].template = last'.shader
                                /\ shaders'[new[i].shader].defs
                                      = old[i].specialization.shader_defs
                                /\ old[i].shader \in DOMAIN shaders
                                /\ old[i].shader \notin DOMAIN shaders'
      ]_vars

\* update_shader got through the entry of one template shader while another
\* template shader has an entry.
C20_Witness ==
    /\ last.op = "update_shader"
    /\ last.outcome = "ok"
    /\ Len(ShaderEntries(last.shader)) >= 1
    /\ \A e \in SeqRange(ShaderEntries(last.shader)) : e.shader = next_shader - 1
    /\ \E t \in TemplateShaders \ {last.shader} : Len(ShaderEntries(t)) >= 1

---------------------------------------------------------------------------
(* C21 *)

\* C21: for every old specialized shader handle that an update_shader call
\* replaces, every template pipeline the reverse index lists for the handle
\* loses all its cache entries, those of every specialization and not only
\* those compiled with the handle, and the compiled pipeline of each of these
\* entries is removed from pipeline storage.
C21_ListedTemplatesLoseEveryEntry ==
    [][(/\ last'.op = "update_shader"
        /\ last'.outcome \in {"ok", "error"})
       => \A i \in DOMAIN ShaderEntries(last'.shader) :
             i <= ProcessedEntries =>
                \A p \in ListedPipelines(ShaderEntries(last'.shader)[i].shader) :
                    /\ p \notin DOMAIN specialized_pipelines'
                    /\ p \in last'.evicted \/ p \notin DOMAIN specialized_pipelines
                    /\ \A e \in SeqRange(PipelineEntries(p)) :
                          e.pipeline \notin DOMAIN pipelines'
      ]_vars

\* update_shader replaced the first handle of the template shader and stopped
\* at the second; the template pipeline it evicted had two compiled pipelines,
\* one of them with the second handle as a stage (the reverse index still
\* lists it there), and both are gone from storage.
C21_Witness ==
    /\ last.op = "update_shader"
    /\ last.outcome = "error"
    /\ last.failed_at = 2
    /\ Cardinality(last.evicted) = 1
    /\ create_render_pipeline_calls = 2
    /\ DOMAIN pipelines = TemplatePipelines
    /\ ListedPipelines(ShaderEntries(last.shader)[2].shader) = last.evicted

---------------------------------------------------------------------------
(* C22 *)

\* The stage templates of template pipeline p that compile_shader compiles
\* (a SPIR-V template passes through).
CompiledStageTemplates(p) ==
    {t \in {TemplatePipelineAssets[p].shader_stages.vertex,
            TemplatePipelineAssets[p].shader_stages.fragment} \ {NoHandle} :
        TemplateShaderAssets[t].source # "Spirv"}

\* update_shader stores no pipeline and asks the backend for none.
NoPipelineRebuilt ==
    /\ create_render_pipeline_calls' = create_render_pipeline_calls
    /\ next_pipeline' = next_pipeline
    /\ DOMAIN pipelines' \subseteq DOMAIN pipelines

\* C22 as stated: update_shader rebuilds none of the pipelines it evicts, and
\* for every (template pipeline, specialization) pair it evicts, the entry that
\* the next compile_pipeline of the pair reuses for the stage compiled from the
\* updated shader holds a handle that this update_shader swapped in.
C22_RecompileUsesSwappedInHandles ==
    [][(/\ last'.op = "update_shader"
        /\ last'.outcome \in {"ok", "error"})
       => /\ NoPipelineRebuilt
          /\ \A p \in last'.evicted : \A e \in SeqRange(PipelineEntries(p)) :
                last'.shader \in CompiledStageTemplates(p) =>
                   \E i \in DOMAIN specialized_shaders'[last'.shader] :
                      /\ specialized_shaders'[last'.shader][i].specialization
                            = e.specialization.shader_specialization
                      /\ specialized_shaders'[last'.shader][i].shader
                            \in (DOMAIN shaders') \ (DOMAIN shaders)
      ]_vars

\* The stage of the compile_pipeline call of the step, asked for template
\* shader t, reused the first entry of t with the specialization's definitions
\* when there was one.
StageReusesEntry(t, report) ==
    LET entries == ShaderEntries(t)
        matches == {i \in DOMAIN entries :
                       entries[i].specialization = last'.specialization.shader_specialization}
    IN  (t \in CompiledStageTemplates(last'.pipeline) /\ matches # {})
        => /\ report.outcome = "hit"
           /\ \E i \in matches :
                 /\ \A j \in matches : i <= j
                 /\ report.handle = entries[i].shader

\* The stage templates of the call that had no entry for the definitions.
StagesWithoutEntry ==
    {t \in CompiledStageTemplates(last'.pipeline) :
        \A i \in DOMAIN ShaderEntries(t) :
            ShaderEntries(t)[i].specialization
               # last'.specialization.shader_specialization}

\* C22, amended: update_shader rebuilds none of the pipelines it evicts.  For
\* every pair it evicts, each compiled stage template of the pair has an entry
\* for the pair's definitions whose handle is in shader storage: a handle this
\* call swapped in when the entry is one the call got through, and the handle
\* it had before otherwise (an entry after a rejected one, or an entry of the
\* other stage's template).  A compile_pipeline call creates a new pipeline
\* handle, reuses these entries' handles for its stages, and asks the backend
\* to compile a shader only for a stage template without such an entry.
C22_RecompileUsesCurrentEntryHandles ==
    [][/\ (/\ last'.op = "update_shader"
           /\ last'.outcome \in {"ok", "error"})
          => /\ NoPipelineRebuilt
             /\ \A p \in last'.evicted : \A e \in SeqRange(PipelineEntries(p)) :
                \A t \in CompiledStageTemplates(p) :
                   \E i \in DOMAIN specialized_shaders'[t] :
                      /\ specialized_shaders'[t][i].specialization
                            = e.specialization.shader_specialization
                      /\ specialized_shaders'[t][i].shader \in DOMAIN shaders'
                      /\ specialized_shaders'[t][i].shader \notin DOMAIN shaders
                            <=> (t = last'.shader /\ i <= ProcessedEntries)
                      /\ specialized_shaders'[t][i].shader \in DOMAIN shaders
                            => specialized_shaders'[t][i] = specialized_shaders[t][i]
       /\ CompiledStep
          => /\ last'.handle \notin DOMAIN pipelines
             /\ StageReusesEntry(TemplatePipelineAssets[last'.pipeline].shader_stages.vertex,
                                 last'.vertex)
             /\ StageReusesEntry(TemplatePipelineAssets[last'.pipeline].shader_stages.fragment,
                                 last'.fragment)
             /\ pipelines'[last'.handle].shader_stages
                   = [vertex |-> last'.vertex.handle, fragment |-> last'.fragment.handle]
             /\ get_specialized_shader_calls'
                   = get_specialized_shader_calls + Cardinality(StagesWithoutEntry)
      ]_vars

\* A template pipeline evicted by an update of its vertex shader was compiled
\* again: both stages were reused, the vertex stage is the handle the update
\* swapped in, and the backend compiled three shaders in all.
C22_Witness ==
    /\ last.op = "compile_pipeline"
    /\ last.outcome = "ok"
    /\ last.vertex.outcome = "hit"
    /\ last.fragment.outcome = "hit"
    /\ last.vertex.handle > last.fragment.handle
    /\ get_specialized_shader_calls = 3
    /\ create_render_pipeline_calls = 2
    /\ DOMAIN pipelines = TemplatePipelines \cup {last.handle}

---------------------------------------------------------------------------
(* C23 *)

\* C23: every shader passed to compile_shader has an entry list in the shader
\* cache from that call on, also when the call passed a SPIR-V template
\* through or the backend rejected the compile: the call leaves the shader
\* with a list, and no call ever removes a list.
C23_RequestedShaderKeepsEntryList ==
    [][/\ \A t \in RequestedShaders : t \in DOMAIN specialized_shaders'
       /\ DOMAIN specialized_shaders \subseteq DOMAIN specialized_shaders'
      ]_vars

\* One compile_pipeline call passed the SPIR-V vertex shader through and had
\* its fragment shader rejected: both have an empty entry list.
C23_Witness ==
    /\ last.op = "compile_pipeline"
    /\ last.vertex.outcome = "passthrough"
    /\ last.fragment.outcome = "error"
    /\ BIN \in DOMAIN specialized_shaders
    /\ FS \in DOMAIN specialized_shaders
    /\ specialized_shaders[BIN] = <<>>
    /\ specialized_shaders[FS] = <<>>

---------------------------------------------------------------------------
(* C24 *)

\* C24: every compile_pipeline call that returns has put the compiled
\* descriptor into pipeline storage and made exactly one create_render_pipeline
\* call, for the handle it returns, at a time when the descriptor was in
\* storage and the handle was not yet in the pipeline cache; when the call
\* returns, the handle is in the cache.  A call that does not return makes no
\* create_render_pipeline call.
C24_MaterializedOnceBeforeRegistered ==
    [][last'.op = "compile_pipeline" =>
        IF last'.outcome = "ok"
        THEN /\ last'.handle \notin DOMAIN pipelines
             /\ last'.handle \in DOMAIN pipelines'
             /\ create_render_pipeline_calls' = create_render_pipeline_calls + 1
             /\ Len(last'.materialized) = 1
             /\ last'.materialized[1].pipeline_handle = last'.handle
             /\ last'.materialized[1].stored
             /\ ~last'.materialized[1].registered
             /\ \E i \in DOMAIN specialized_pipelines'[last'.pipeline] :
                   specialized_pipelines'[last'.pipeline][i].pipeline = last'.handle
        ELSE /\ create_render_pipeline_calls' = create_render_pipeline_calls
             /\ last'.materialized = <<>>
      ]_vars

\* The second pipeline of a template pipeline was materialized.
C24_Witness ==
    /\ last.op = "compile_pipeline"
    /\ last.outcome = "ok"
    /\ Len(last.materialized) = 1
    /\ last.materialized[1].pipeline_handle = last.handle
    /\ create_render_pipeline_calls = 2
    /\ Len(PipelineEntries(last.pipeline)) = 2
    /\ last.handle \in DOMAIN pipelines

---------------------------------------------------------------------------
(* C25 *)

\* The reverse-index list of a shader handle, empty when it has none.
ListedFor(handle) ==
    IF handle \in DOMAIN specialized_shader_pipelines
    THEN specialized_shader_pipelines[handle]
    ELSE <<>>

\* C25: every compile_pipeline call that returns appends the template
\* pipeline's handle to the reverse-index list of the vertex stage handle it
\* put into the descriptor and, when the template has a fragment stage, to
\* the list of the fragment stage handle, and changes no other list; it
\* appends one entry, the returned handle with the specialization, to the
\* template pipeline's entry list and changes no other entry list.
C25_CompileRegistersInBothIndexes ==
    [][CompiledStep =>
        LET p == last'.pipeline
            stages == {last'.vertex.handle, last'.fragment.handle} \ {NoHandle}
        IN  /\ last'.vertex.handle # NoHandle
            /\ (last'.fragment.handle # NoHandle)
                  <=> (TemplatePipelineAssets[p].shader_stages.fragment # NoHandle)
            /\ DOMAIN specialized_shader_pipelines'
                  = (DOMAIN specialized_shader_pipelines) \cup stages
            /\ \A h \in DOMAIN specialized_shader_pipelines' :
                  specialized_shader_pipelines'[h]
                     = IF h \in stages THEN Append(ListedFor(h), p) ELSE ListedFor(h)
            /\ DOMAIN specialized_pipelines' = (DOMAIN specialized_pipelines) \cup {p}
            /\ \A q \in DOMAIN specialized_pipelines' :
                  specialized_pipelines'[q]
                     = IF q = p
                       THEN Append(PipelineEntries(p),
                                   [pipeline |-> last'.handle,
                                    specialization |-> last'.specialization])
                       ELSE PipelineEntries(q)
      ]_vars

\* A template pipeline with both stages was compiled twice with the same
\* shader definitions: it is listed twice under each of its two stage handles.
C25_Witness ==
    /\ last.op = "compile_pipeline"
    /\ last.outcome = "ok"
    /\ last.fragment.handle # NoHandle
    /\ ListedFor(last.vertex.handle) = <<last.pipeline, last.pipeline>>
    /\ ListedFor(last.fragment.handle) = <<last.pipeline, last.pipeline>>
    /\ PipelineEntries(last.pipeline)[2].pipeline = last.handle

---------------------------------------------------------------------------
(* C26 *)

\* The names of the attributes of a vertex buffer descriptor.
AttributeNames(buffer) == {buffer.attributes[m].name : m \in DOMAIN buffer.attributes}

\* The names the shader declares, in the order of the reflected layout.
ReflectedNames(reflected) ==
    [r \in DOMAIN reflected.vertex_buffer_descriptors |->
        reflected.vertex_buffer_descriptors[r].attributes[1].name]

---------------------------------------------------------------------------
(* C27 *)

\* The binding is a uniform that the specialization names: the one the code
\* sets to dynamic-offset mode and counts as changed.
NamedUniform(binding, dynamic_bindings) ==
    /\ binding.name \in dynamic_bindings
    /\ binding.bind_type.kind = "Uniform"

\* C27: with the dynamic-binding names of the specialization, every uniform
\* binding whose name is among them is in dynamic-offset mode in the stored
\* layout and every other binding is as reflected; the stamp of a bind group
\* is bumped, once, exactly when one of its bindings was set so, and a group
\* with no such binding keeps its stamp.
C27_NamedUniformsDynamicAndStamped ==
    last.op = "layout" =>
        /\ DOMAIN last.layout.bind_groups = DOMAIN last.reflected.bind_groups
        /\ \A g \in DOMAIN last.reflected.bind_groups :
              LET before == last.reflected.bind_groups[g]
                  after == last.layout.bind_groups[g]
                  names == last.specialization.dynamic_bindings
              IN  /\ after.index = before.index
                  /\ DOMAIN after.bindings = DOMAIN before.bindings
                  /\ \A b \in DOMAIN before.bindings :
                        IF NamedUniform(before.bindings[b], names)
                        THEN /\ after.bindings[b].bind_type.dynamic
                             /\ after.bindings[b].bind_type.kind = "Uniform"
                             /\ after.bindings[b].name = before.bindings[b].name
                        ELSE after.bindings[b] = before.bindings[b]
                  /\ after.id = IF \E b \in DOMAIN before.bindings :
                                      NamedUniform(before.bindings[b], names)
                                THEN before.id + 1
                                ELSE before.id

\* Of three bind groups, the first has its uniform named and is stamped, the
\* second has only its sampler named and the third has nothing named: both
\* keep their stamp.
C27_Witness ==
    /\ last.op = "layout"
    /\ last.specialization.dynamic_bindings = {"Camera", "Texture"}
    /\ Len(last.layout.bind_groups) = 3
    /\ last.layout.bind_groups[1].bindings[1].bind_type.dynamic
    /\ last.layout.bind_groups[1].id = last.reflected.bind_groups[1].id + 1
    /\ last.layout.bind_groups[2] = last.reflected.bind_groups[2]
    /\ last.layout.bind_groups[3] = last.reflected.bind_groups[3]

---------------------------------------------------------------------------
(* C28 *)

\* The two callers put equal values into all six fields: the same definitions
\* and the same dynamic-binding names in whatever order they were inserted,
\* the same vertex buffers in the same order, and the same topology, index
\* format and sample count.
SameKey(a, b) ==
    /\ HashSetOf(a.shader_defs) = HashSetOf(b.shader_defs)
    /\ a.primitive_topology = b.primitive_topology
    /\ HashSetOf(a.dynamic_bindings) = HashSetOf(b.dynamic_bindings)
    /\ a.index_format = b.index_format
    /\ Len(a.vertex_buffer_descriptors) = Len(b.vertex_buffer_descriptors)
    /\ \A i \in DOMAIN a.vertex_buffer_descriptors :
          a.vertex_buffer_descriptors[i] = b.vertex_buffer_descriptors[i]
    /\ a.sample_count = b.sample_count

\* C28: a lookup in the pipeline cache finds the cached entry exactly when all
\* six fields of the requested specialization equal the entry's: definitions
\* and dynamic-binding names as sets, whatever the insertion order, the vertex
\* buffer list as an ordered list; a difference in a single field is a miss.
C28_HitExactlyOnEqualKey ==
    last.op = "get_specialized_pipeline" =>
        IF SameKey(last.cached, last.requested)
        THEN /\ last.handle # NoHandle
             /\ last.handle = PipelineEntries(last.pipeline)[1].pipeline
        ELSE last.handle = NoHandle

\* A hit for a specialization whose definitions and dynamic-binding names were
\* inserted in the other order.
C28_Witness ==
    /\ last.op = "get_specialized_pipeline"
    /\ last.handle # NoHandle
    /\ last.cached.shader_defs = <<"A", "B">>
    /\ last.requested.shader_defs = <<"B", "A">>
    /\ last.cached.dynamic_bindings = <<"Camera", "Texture">>
    /\ last.requested.dynamic_bindings = <<"Texture", "Camera">>
    /\ Len(last.requested.vertex_buffer_descriptors) = 2

---------------------------------------------------------------------------
(* The owner of asset storage removes one template asset between the calls. *)

\* A call that is not the compiler's own.
StorageCall(op, pipeline, shader) ==
    [op |-> op, pipeline |-> pipeline, shader |-> shader,
     specialization |-> DefaultSpecialization, outcome |-> "ok",
     handle |-> NoHandle, vertex |-> NoReport, fragment |-> NoReport,
     failed_at |-> 0, evicted |-> {}, materialized |-> <<>>]

\* No template asset was removed yet.
TemplatesStored ==
    /\ TemplateShaders \subseteq DOMAIN shaders
    /\ TemplatePipelines \subseteq DOMAIN pipelines

\* Assets<Shader>::remove of a template shader, the first removal.
RemoveShaderAssetAction ==
    /\ Running
    /\ TemplatesStored
    /\ \E shader \in TemplateShaders \cap DOMAIN shaders :
          /\ shaders' = Del(shaders, shader)
          /\ last' = StorageCall("remove_shader", NoHandle, shader)
    /\ UNCHANGED <<pipelines, specialized_shaders, specialized_shader_pipelines,
                   specialized_pipelines, next_shader, next_pipeline,
                   get_specialized_shader_calls, create_render_pipeline_calls>>

\* Assets<PipelineDescriptor>::remove of a template pipeline, the first removal.
RemovePipelineAssetAction ==
    /\ Running
    /\ TemplatesStored
    /\ \E pipeline \in TemplatePipelines \cap DOMAIN pipelines :
          /\ pipelines' = Del(pipelines, pipeline)
          /\ last' = StorageCall("remove_pipeline", pipeline, NoHandle)
    /\ UNCHANGED <<shaders, specialized_shaders, specialized_shader_pipelines,
                   specialized_pipelines, next_shader, next_pipeline,
                   get_specialized_shader_calls, create_render_pipeline_calls>>

\* compile_pipeline for the default specialization.
CompileDefaultPipelineAction ==
    /\ Running
    /\ \E source_pipeline \in TemplatePipelines, vertex_ok \in BOOLEAN,
          fragment_ok \in BOOLEAN :
            CompilePipelineCall(source_pipeline, DefaultSpecialization,
                                vertex_ok, fragment_ok)

NextMissing ==
    \/ CompileDefaultPipelineAction
    \/ UpdateShaderAction
    \/ RemoveShaderAssetAction
    \/ RemovePipelineAssetAction

SpecMissing == Init /\ [][NextMissing]_vars

---------------------------------------------------------------------------
(* C29 *)

\* C29: the sample count, the primitive topology and the index format of a
\* compiled descriptor are those of the specialization, whatever the template
\* descriptor holds, and its other fields apart from the layout and the
\* shader stages (here its name) are the template's.
C29_ScalarFieldsFromSpecialization ==
    \A p \in DOMAIN specialized_pipelines : \A i \in DOMAIN specialized_pipelines[p] :
        LET compiled == pipelines[specialized_pipelines[p][i].pipeline]
            specialization == specialized_pipelines[p][i].specialization
        IN  /\ compiled.sample_count = specialization.sample_count
            /\ compiled.primitive_topology = specialization.primitive_topology
            /\ compiled.index_format = specialization.index_format
            /\ compiled.name = TemplatePipelineAssets[p].name
            /\ DOMAIN compiled = DOMAIN TemplatePipelineAssets[p]

\* The template pipeline that holds a sample count, a topology and an index
\* format of its own was compiled for a specialization with three others.
C29_Witness ==
    /\ last.op = "compile_pipeline"
    /\ last.pipeline = P3
    /\ last.cached.sample_count = 4
    /\ last.cached.primitive_topology = "LineList"
    /\ last.cached.index_format = "Uint32"
    /\ pipelines[last.handle].sample_count = 4
    /\ pipelines[last.handle].primitive_topology = "LineList"
    /\ pipelines[last.handle].index_format = "Uint32"
    /\ pipelines[last.handle].name = pipelines[P3].name
    /\ pipelines[P3].index_format = "Uint16"

---------------------------------------------------------------------------
(* C30 *)

\* The template pipeline is missing from storage.
MissingTemplate(pipeline) == pipeline \notin DOMAIN pipelines

\* The template pipeline is stored and its vertex shader is missing.
MissingVertexShader(pipeline) ==
    /\ pipeline \in DOMAIN pipelines
    /\ pipelines[pipeline].shader_stages.vertex \notin DOMAIN shaders

\* The template pipeline and its vertex shader are stored and its fragment
\* shader is missing.
MissingFragmentShader(pipeline) ==
    /\ pipeline \in DOMAIN pipelines
    /\ pipelines[pipeline].shader_stages.vertex \in DOMAIN shaders
    /\ pipelines[pipeline].shader_stages.fragment # NoHandle
    /\ pipelines[pipeline].shader_stages.fragment \notin DOMAIN shaders

\* C30: a call that needs an asset missing from storage aborts and returns
\* neither a value nor an error: compile_pipeline for a template pipeline
\* that is missing or one of whose stage shaders is missing (the stage itself
\* aborts, the backend's answer being irrelevant), and update_shader for a
\* template shader that has specialized entries and is missing.
C30_MissingAssetAborts ==
    [][/\ (last'.op = "compile_pipeline" /\ MissingTemplate(last'.pipeline))
            => /\ last'.outcome = "panic"
               /\ last'.vertex = NoReport
               /\ last'.fragment = NoReport
       /\ (last'.op = "compile_pipeline" /\ MissingVertexShader(last'.pipeline))
            => /\ last'.outcome = "panic"
               /\ last'.vertex.outcome = "panic"
               /\ last'.fragment = NoReport
       /\ (last'.op = "compile_pipeline" /\ MissingFragmentShader(last'.pipeline))
            => /\ last'.outcome = "panic"
               /\ last'.vertex.outcome = "ok" => last'.fragment.outcome = "panic"
       /\ (/\ last'.op = "update_shader"
           /\ last'.shader \notin DOMAIN shaders
           /\ EntryCount(last'.shader) > 0)
            => last'.outcome = "panic"]_vars

\* update_shader was called for a template shader that has a specialized
\* entry and was removed from storage, and aborted.
C30_Witness ==
    /\ last.op = "update_shader"
    /\ last.shader \notin DOMAIN shaders
    /\ EntryCount(last.shader) > 0
    /\ last.outcome = "panic"

---------------------------------------------------------------------------
(* A caller that looks a pair up before it compiles it. *)

\* compile_pipeline for the pair get_specialized_pipeline has just returned
\* None for.
CompileAfterMissAction ==
    /\ Running
    /\ last.op = "get_specialized_pipeline"
    /\ last.outcome = "not_found"
    /\ \E vertex_ok \in BOOLEAN, fragment_ok \in BOOLEAN :
          CompilePipelineCall(last.pipeline, last.specialization, vertex_ok, fragment_ok)

NextLookupFirst ==
    \/ GetSpecializedPipelineAction
    \/ CompileAfterMissAction
    \/ UpdateShaderAction

SpecLookupFirst == Init /\ [][NextLookupFirst]_vars

---------------------------------------------------------------------------
(* C31 *)

\* C31: when compile_pipeline is called only for a pair that
\* get_specialized_pipeline has just not found, every template pipeline's
\* entry list holds at most one entry per specialization and
\* get_specialized_pipeline returns the handle of every entry for the entry's
\* specialization.
C31_LookupFirstKeepsEntriesUnique ==
    \A p \in DOMAIN specialized_pipelines :
        /\ \A i, j \in DOMAIN specialized_pipelines[p] :
              specialized_pipelines[p][i].specialization
                    = specialized_pipelines[p][j].specialization => i = j
        /\ \A i \in DOMAIN specialized_pipelines[p] :
              GetSpecializedPipeline(Compiler, p, specialized_pipelines[p][i].specialization)
                    = specialized_pipelines[p][i].pipeline

\* A compile after a miss has returned for a template pipeline whose list now
\* holds two entries.
C31_Witness ==
    /\ last.op = "compile_pipeline"
    /\ last.outcome = "ok"
    /\ Len(PipelineEntries(last.pipeline)) = 2
    /\ PipelineEntries(last.pipeline)[2].pipeline = last.handle
    /\ GetSpecializedPipeline(Compiler, last.pipeline, last.specialization) = last.handle

---------------------------------------------------------------------------
(* C32 *)

\* The handles the specialized-shader entries hold.
HeldShaderHandles ==
    UNION {{specialized_shaders[t][i].shader : i \in DOMAIN specialized_shaders[t]} :
              t \in DOMAIN specialized_shaders}

\* C32: for every specialized pipeline in the pipeline cache and each of its
\* stage handles that a specialized-shader entry holds, the reverse-index list
\* of that shader handle names the pipeline's template pipeline.
C32_CachedPipelinesAreListed ==
    \A p \in DOMAIN specialized_pipelines : \A i \in DOMAIN specialized_pipelines[p] :
        \A stage \in StageHandles(pipelines[specialized_pipelines[p][i].pipeline])
                        \cap HeldShaderHandles :
            p \in ListedPipelines(stage)

\* Two template pipelines have cached pipelines that share a specialized
\* shader handle held by an entry, after an update_shader call that evicted
\* neither.
C32_Witness ==
    /\ last.op = "update_shader"
    /\ \E p, q \in DOMAIN specialized_pipelines :
          /\ p # q
          /\ specialized_pipelines[p] # <<>>
          /\ specialized_pipelines[q] # <<>>
          /\ \E stage \in HeldShaderHandles :
                /\ stage \in StageHandles(pipelines[specialized_pipelines[p][1].pipeline])
                /\ stage \in StageHandles(pipelines[specialized_pipelines[q][1].pipeline])
                /\ {p, q} \subseteq ListedPipelines(stage)

---------------------------------------------------------------------------
(* C33 *)

\* The step is an update_shader call that returned the backend's error.
FailedUpdateStep ==
    /\ last'.op = "update_shader"
    /\ last'.outcome = "error"

\* The template pipelines listed for the handles of the entries the call
\* swapped before it failed.
ListedForSwapped ==
    UNION {ListedPipelines(ShaderEntries(last'.shader)[j].shader) :
              j \in 1 .. (last'.failed_at - 1)}

\* C33: after an update_shader call that fails partway no specialized pipeline
\* left in the pipeline cache has a stage handle the call removed from shader
\* storage; the call evicts every entry of the template pipelines listed for
\* the handles it swapped, whether or not the entry's own stage handles were
\* swapped, and no other template pipeline.
C33_FailedUpdateLeavesNoDanglingStage ==
    [][FailedUpdateStep =>
        /\ \A freed \in (DOMAIN shaders) \ (DOMAIN shaders') :
              CachedPipelinesUsing(freed)' = {}
        /\ \A p \in DOMAIN specialized_pipelines' : \A i \in DOMAIN specialized_pipelines'[p] :
              \A stage \in StageHandles(pipelines'[specialized_pipelines'[p][i].pipeline]) :
                  stage \in DOMAIN shaders => stage \in DOMAIN shaders'
        /\ last'.evicted = ListedForSwapped \cap DOMAIN specialized_pipelines
        /\ \A p \in (DOMAIN specialized_pipelines) \ last'.evicted :
              specialized_pipelines'[p] = specialized_pipelines[p]]_vars

\* update_shader failed after it evicted a template pipeline's entries, and
\* an entry it did not get to still holds a handle whose reverse-index list
\* names that template pipeline: a pipeline compiled with the handle was
\* evicted although the handle was not swapped.
C33_Witness ==
    /\ last.op = "update_shader"
    /\ last.outcome = "error"
    /\ \E p \in last.evicted : \E j \in DOMAIN ShaderEntries(last.shader) :
          /\ j >= last.failed_at
          /\ p \notin DOMAIN specialized_pipelines
          /\ ShaderEntries(last.shader)[j].shader \in DOMAIN shaders
          /\ p \in ListedPipelines(ShaderEntries(last.shader)[j].shader)

---------------------------------------------------------------------------
(* C34 *)

\* C34: between the calls the shaders the compiler added to shader storage and
\* did not remove are exactly the handles its specialized-shader entries hold,
\* and the pipelines it added to pipeline storage and did not remove are
\* exactly the handles its specialized-pipeline entries hold, also after
\* update_shader calls that failed.
C34_StorageMatchesCaches ==
    /\ HeldShaderHandles \subseteq DOMAIN shaders
    /\ AllCachedHandles \subseteq DOMAIN pipelines
    /\ (DOMAIN shaders) \ TemplateShaders = HeldShaderHandles
    /\ (DOMAIN pipelines) \ TemplatePipelines = AllCachedHandles
    /\ TemplateShaders \cap HeldShaderHandles = {}
    /\ TemplatePipelines \cap AllCachedHandles = {}

\* update_shader failed after it swapped an entry and evicted a template
\* pipeline; the swapped-in shader and the shader of the rejected entry are
\* in storage.
C34_Witness ==
    /\ last.op = "update_shader"
    /\ last.outcome = "error"
    /\ last.failed_at >= 2
    /\ last.evicted # {}
    /\ Cardinality((DOMAIN shaders) \ TemplateShaders) >= 2

---------------------------------------------------------------------------
(* compile_pipeline calls alone, with the shader compiles they requested. *)

\* The (template shader, definition set) pairs a compile_pipeline call passed
\* to compile_shader (lines 155-160 and 164-175); r is what the call returned.
StageRequests(source_pipeline, pipeline_specialization, r) ==
    LET defs == pipeline_specialization.shader_specialization.shader_defs
        stages == pipelines[source_pipeline].shader_stages
    IN  (IF r.vertex.outcome # "none"
         THEN {[shader |-> stages.vertex, defs |-> defs]} ELSE {})
        \cup (IF r.fragment.outcome # "none"
              THEN {[shader |-> stages.fragment, defs |-> defs]} ELSE {})

InitRequests ==
    /\ shaders = TemplateShaderAssets
    /\ pipelines = TemplatePipelineAssets
    /\ specialized_shaders = <<>>
    /\ specialized_shader_pipelines = <<>>
    /\ specialized_pipelines = <<>>
    /\ next_shader = FirstShaderHandle
    /\ next_pipeline = FirstPipelineHandle
    /\ get_specialized_shader_calls = 0
    /\ create_render_pipeline_calls = 0
    /\ last = [op |-> "new", pipeline |-> NoHandle,
               specialization |-> DefaultSpecialization, outcome |-> "ok",
               handle |-> NoHandle, vertex |-> NoReport, fragment |-> NoReport,
               requested |-> {}]

\* compile_pipeline; `requested` collects the pairs of all calls so far.
CompilePipelineRequestsAction ==
    /\ Running
    /\ \E source_pipeline \in TemplatePipelines, pipeline_specialization \in Specializations,
          vertex_ok \in BOOLEAN, fragment_ok \in BOOLEAN :
          LET r == CompilePipeline(Compiler, source_pipeline, pipeline_specialization,
                                   vertex_ok, fragment_ok)
          IN  /\ Commit(r.c)
              /\ last' = [op |-> "compile_pipeline", pipeline |-> source_pipeline,
                          specialization |-> pipeline_specialization,
                          outcome |-> r.outcome, handle |-> r.handle,
                          vertex |-> StageReport(r.vertex),
                          fragment |-> StageReport(r.fragment),
                          requested |-> last.requested
                              \cup StageRequests(source_pipeline,
                                                 pipeline_specialization, r)]

NextRequests == CompilePipelineRequestsAction

SpecRequests == InitRequests /\ [][NextRequests]_vars

---------------------------------------------------------------------------
(* C35 *)

\* The names of the two stages of a descriptor.
StageNames == {"vertex", "fragment"}

\* Cached pipelines whose template pipelines use the same template shader that
\* is not SPIR-V, compiled for equal definition sets, hold the same
\* specialized shader handle for that stage.
SpecializedShadersShared ==
    \A p, q \in DOMAIN specialized_pipelines :
      \A i \in DOMAIN specialized_pipelines[p], j \in DOMAIN specialized_pipelines[q] :
        \A a, b \in StageNames :
          LET e == specialized_pipelines[p][i]
              f == specialized_pipelines[q][j]
              t == pipelines[p].shader_stages[a]
          IN  (/\ t # NoHandle
               /\ t = pipelines[q].shader_stages[b]
               /\ shaders[t].source # "Spirv"
               /\ e.specialization.shader_specialization
                    = f.specialization.shader_specialization)
              => pipelines[e.pipeline].shader_stages[a]
                    = pipelines[f.pipeline].shader_stages[b]

\* C35 as stated: specialized shaders are shared, and over compile_pipeline
\* calls alone the number of backend shader compiles is the number of distinct
\* (template shader, definition set) pairs requested.
C35_OneCompilePerRequestedPair ==
    /\ SpecializedShadersShared
    /\ get_specialized_shader_calls = Cardinality(last.requested)

\* C35 amended: specialized shaders are shared, and over compile_pipeline
\* calls alone the number of backend shader compiles is the number of distinct
\* (template shader, definition set) pairs requested whose template shader is
\* not SPIR-V; a SPIR-V template shader is requested without any backend
\* compile.
C35_OneCompilePerRequestedSourcePair ==
    /\ SpecializedShadersShared
    /\ get_specialized_shader_calls
          = Cardinality({pair \in last.requested : shaders[pair.shader].source # "Spirv"})

\* Two template pipelines were compiled for specializations that differ
\* outside the shader definitions and share the vertex shader: the second
\* call found the shared pair cached, and two backend compiles served the two
\* distinct pairs requested.
C35_Witness ==
    /\ last.op = "compile_pipeline"
    /\ last.outcome = "ok"
    /\ last.vertex.outcome = "hit"
    /\ \E p, q \in DOMAIN specialized_pipelines :
          /\ p # q
          /\ specialized_pipelines[p] # <<>>
          /\ specialized_pipelines[q] # <<>>
          /\ specialized_pipelines[p][1].specialization
                # specialized_pipelines[q][1].specialization
          /\ pipelines[specialized_pipelines[p][1].pipeline].shader_stages.vertex
                = pipelines[specialized_pipelines[q][1].pipeline].shader_stages.vertex
          /\ pipelines[p].shader_stages.vertex = VS
    /\ get_specialized_shader_calls = Cardinality(last.requested)
    /\ get_specialized_shader_calls = 2

---------------------------------------------------------------------------
(* C36 *)

\* The step is a compile_pipeline call whose vertex stage was compiled (or
\* found) and whose fragment stage the backend rejected.
FragmentRejectedStep ==
    /\ last'.op = "compile_pipeline"
    /\ last'.vertex.outcome \in {"miss", "hit", "passthrough"}
    /\ last'.fragment.outcome = "error"

\* C36: when compile_pipeline panics because the backend rejects the fragment
\* shader after the vertex stage succeeded, the pipeline cache, the reverse
\* index and pipeline storage are as before and the backend was not asked to
\* materialize a pipeline; a vertex shader the call newly specialized is in
\* shader storage and is the last entry of its template's list, and a vertex
\* shader the call found cached changed nothing.
C36_FragmentFailureKeepsVertexShader ==
    [][FragmentRejectedStep =>
        LET t == pipelines[last'.pipeline].shader_stages.vertex
            defs == last'.specialization.shader_specialization
        IN  /\ last'.outcome = "panic"
            /\ last'.handle = NoHandle
            /\ specialized_pipelines' = specialized_pipelines
            /\ specialized_shader_pipelines' = specialized_shader_pipelines
            /\ pipelines' = pipelines
            /\ create_render_pipeline_calls' = create_render_pipeline_calls
            /\ last'.materialized = <<>>
            /\ t \in DOMAIN specialized_shaders'
            /\ last'.vertex.outcome = "miss" =>
                  /\ last'.vertex.handle \notin DOMAIN shaders
                  /\ DOMAIN shaders' = (DOMAIN shaders) \cup {last'.vertex.handle}
                  /\ shaders'[last'.vertex.handle].template = t
                  /\ shaders'[last'.vertex.handle].defs = defs.shader_defs
                  /\ specialized_shaders'[t]
                        = Append(ShaderEntries(t),
                                 [shader |-> last'.vertex.handle, specialization |-> defs])
            /\ last'.vertex.outcome # "miss" =>
                  /\ shaders' = shaders
                  /\ specialized_shaders'[t] = ShaderEntries(t)]_vars

\* compile_pipeline panicked on the rejected fragment shader after it
\* specialized the vertex shader for a definition set that is not empty; the
\* vertex shader is cached and stored, no pipeline is.
C36_Witness ==
    /\ last.op = "compile_pipeline"
    /\ last.outcome = "panic"
    /\ last.vertex.outcome = "miss"
    /\ last.fragment.outcome = "error"
    /\ last.specialization.shader_specialization.shader_defs # {}
    /\ last.vertex.handle \in DOMAIN shaders
    /\ \E i \in DOMAIN ShaderEntries(VS) : ShaderEntries(VS)[i].shader = last.vertex.handle
    /\ AllCachedHandles = {}

---------------------------------------------------------------------------
(* C37 *)

\* The step is an update_shader call that returned, with Ok or with an error.
ReturnedUpdateStep ==
    /\ last'.op = "update_shader"
    /\ last'.outcome \in {"ok", "error"}

\* The handles the entries held that the call got through.
SwappedOutHandles ==
    {ShaderEntries(last'.shader)[j].shader : j \in 1 .. ProcessedEntries}

\* C37: update_shader removes from the reverse index the keys of the handles
\* it frees and nothing else: every other key keeps its list, template
\* pipelines whose entries the call evicted included; and a call that finds
\* only template pipelines without entries listed for the handles it frees
\* returns without changing pipeline storage or the pipeline cache.
C37_StaleListingsAreKeptAndHarmless ==
    [][last'.op = "update_shader" =>
        /\ last'.outcome # "panic"
        /\ ReturnedUpdateStep =>
              /\ DOMAIN specialized_shader_pipelines'
                    = (DOMAIN specialized_shader_pipelines) \ SwappedOutHandles
              /\ \A h \in DOMAIN specialized_shader_pipelines' :
                    specialized_shader_pipelines'[h] = specialized_shader_pipelines[h]
              /\ (UNION {ListedPipelines(h) : h \in SwappedOutHandles}
                        \cap DOMAIN specialized_pipelines = {})
                    => /\ pipelines' = pipelines
                       /\ specialized_pipelines' = specialized_pipelines]_vars

\* update_shader of the fragment shader returned Ok after an update_shader of
\* the vertex shader had evicted the one template pipeline compiled with both:
\* the list of the fragment handle it freed still named that template
\* pipeline, which had no entries.
C37_Witness ==
    /\ last.op = "update_shader"
    /\ last.outcome = "ok"
    /\ last.shader = FS
    /\ last.evicted = {}
    /\ Len(ShaderEntries(VS)) = 1
    /\ Len(ShaderEntries(FS)) = 1
    /\ get_specialized_shader_calls = 4
    /\ create_render_pipeline_calls = 1
    /\ specialized_pipelines = <<>>
    /\ specialized_shader_pipelines = <<>>
    /\ pipelines = TemplatePipelineAssets

---------------------------------------------------------------------------
(* C38 *)

\* The binding is named in dynamic_bindings and is not a uniform.
NamedOther(binding, dynamic_bindings) ==
    /\ binding.name \in dynamic_bindings
    /\ binding.bind_type.kind # "Uniform"

\* C38: a binding that is named in dynamic_bindings and is not a uniform is
\* left as reflected, and a bind group in which the names match no uniform
\* keeps its stamp; a bind group with a named uniform gets its stamp bumped
\* once, also when every named uniform was in dynamic-offset mode already.
C38_BumpFollowsNamedUniforms ==
    last.op = "layout" =>
        /\ Len(last.layout.bind_groups) = Len(last.reflected.bind_groups)
        /\ \A g \in DOMAIN last.reflected.bind_groups :
              LET reflected == last.reflected.bind_groups[g]
                  compiled == last.layout.bind_groups[g]
                  named == last.specialization.dynamic_bindings
              IN  /\ DOMAIN compiled.bindings = DOMAIN reflected.bindings
                  /\ \A b \in DOMAIN reflected.bindings :
                        NamedOther(reflected.bindings[b], named)
                            => compiled.bindings[b] = reflected.bindings[b]
                  /\ (\A b \in DOMAIN reflected.bindings :
                          ~NamedUniform(reflected.bindings[b], named))
                        => compiled = reflected
                  /\ (\E b \in DOMAIN reflected.bindings :
                          NamedUniform(reflected.bindings[b], named))
                        => compiled.id = reflected.id + 1

\* The layout was compiled with the sampler of the second bind group and the
\* already dynamic uniform of the third named: the second group is as
\* reflected, the third has the bindings it had and a bumped stamp.
C38_Witness ==
    /\ last.op = "layout"
    /\ {"Texture", "Transform"} \subseteq last.specialization.dynamic_bindings
    /\ Len(last.reflected.bind_groups) = 3
    /\ last.layout.bind_groups[2] = last.reflected.bind_groups[2]
    /\ last.reflected.bind_groups[2].bindings[2].bind_type.kind = "Sampler"
    /\ last.reflected.bind_groups[3].bindings[1].bind_type.dynamic
    /\ last.layout.bind_groups[3].bindings = last.reflected.bind_groups[3].bindings
    /\ last.layout.bind_groups[3].id = last.reflected.bind_groups[3].id + 1

---------------------------------------------------------------------------
(* C39 *)

\* The reflected descriptors whose attribute the buffer provides.
ProvidedBy(buffer, reflected) ==
    {r \in DOMAIN reflected :
        FindAttribute(buffer.attributes, reflected[r].attributes[1].name) # 0}

\* The compiled buffer is made of the specialization buffer and the reflected
\* descriptors alone: the buffer's stride, and for each reflected descriptor
\* the buffer provides, in the reflected order, the buffer's attribute of
\* that name at the reflected location.
MadeOf(compiled, buffer, reflected) ==
    LET provided == ProvidedBy(buffer, reflected)
        Nth(k) == CHOOSE r \in provided : Cardinality({x \in provided : x <= r}) = k
    IN  /\ compiled.stride = buffer.stride
        /\ Len(compiled.attributes) = Cardinality(provided)
        /\ \A k \in DOMAIN compiled.attributes :
              LET shader_vertex_attribute == reflected[Nth(k)].attributes[1]
                  found == FindAttribute(buffer.attributes, shader_vertex_attribute.name)
              IN  compiled.attributes[k]
                    = [buffer.attributes[found] EXCEPT
                          !.shader_location = shader_vertex_attribute.shader_location]

\* C39: every compiled vertex buffer has step mode Vertex whatever its
\* specialization buffer declared, and is made of its own specialization
\* buffer and the reflected layout alone: it is the buffer the layout compiled
\* for that one specialization buffer by itself would hold.
C39_BuffersPerVertexAndIndependent ==
    last.op = "layout" =>
        LET buffers == last.specialization.vertex_buffer_descriptors
            compiled == last.layout.vertex_buffer_descriptors
        IN  /\ Len(compiled) = Len(buffers)
            /\ \A i \in DOMAIN buffers :
                  /\ compiled[i].step_mode = "Vertex"
                  /\ MadeOf(compiled[i], buffers[i], last.reflected.vertex_buffer_descriptors)
                  /\ compiled[i]
                        = CompileReflectedLayout(
                              last.reflected,
                              [last.specialization EXCEPT
                                  !.vertex_buffer_descriptors = <<buffers[i]>>]
                          ).vertex_buffer_descriptors[1]

\* A layout was compiled for two specialization buffers that declare step
\* mode Instance, each providing attributes the shader declares: each compiled
\* buffer is per-vertex and holds its own buffer's attributes only.
C39_Witness ==
    /\ last.op = "layout"
    /\ Len(last.specialization.vertex_buffer_descriptors) = 2
    /\ \A i \in DOMAIN last.layout.vertex_buffer_descriptors :
          /\ last.specialization.vertex_buffer_descriptors[i].step_mode = "Instance"
          /\ last.layout.vertex_buffer_descriptors[i].step_mode = "Vertex"
          /\ last.layout.vertex_buffer_descriptors[i].attributes # <<>>
    /\ last.layout.vertex_buffer_descriptors[1].attributes
          # last.layout.vertex_buffer_descriptors[2].attributes

====
